---- MODULE Spec2Model ----
(***************************************************************************)
(* Model of two kernel subsystems of Theseus:                              *)
(*   - kernel/cpu_local_preemption/src/preemption.rs: the per-CPU          *)
(*     preemption counter, hold_preemption*() and PreemptionGuard::drop;   *)
(*   - kernel/mod_mgmt/src/parse_nano_core.rs: parse_nano_core and its two *)
(*     parsers.                                                            *)
(* Spec and SpecOverflow drive the preemption counter, SpecParse drives    *)
(* parse_nano_core.                                                        *)
(***************************************************************************)
EXTENDS Integers, Sequences, FiniteSets, TLC

VARIABLES
    \* ---- preemption.rs ----
    count,       \* PREEMPTION_COUNT: the AtomicU8 of each CPU
    timer,       \* each CPU's APIC LVT timer: TRUE when enabled
    apic_calls,  \* per CPU, the arguments of the enable_lvt_timer() calls made so far
    guards,      \* the live PreemptionGuards, oldest first
    aborted,     \* "none", or the panic that stopped the kernel
    last,        \* the operation executed last: its kind, CPU and guard
    lifo,        \* per CPU: every release of the current region released the newest live guard
    regions,     \* per CPU, its outermost regions so far: the variant that opened each, and whether it has closed
    nops,        \* number of hold/release operations executed so far
    \* ---- parse_nano_core.rs ----
    pc,              \* where parse_nano_core (or the parser it called) stands
    symbol_file,     \* PARSE_NANO_CORE_SYMBOL_FILE of the build
    strong,          \* strong count of the Arc around each of the three page handles
    page_mapped,     \* whether each of the three MappedPages is still mapped (not dropped)
    page_locked,     \* whether the Mutex around each page handle is held
    scratch,         \* temp_module_mapping: "none", "mapped" or "unmapped"
    fa_locked,       \* whether parse_nano_core holds the FRAME_ALLOCATOR lock
    shndx,           \* text_shndx, rodata_shndx, data_shndx, bss_shndx (None until found)
    section_counter, \* the parser's section_counter
    sections,        \* the parser's local BTreeMap of sections
    loop_result,     \* the deferred error slot of the entry loop ("ok" or the message)
    new_crate,       \* the CowArc<LoadedCrate> under construction
    input,           \* what the parser has read so far: header lines / ELF sections, and entries
    new_syms,        \* the count add_symbols returned
    symbol_map,      \* the default namespace's symbols
    crate_tree,      \* the default namespace's crate tree
    result,          \* what parse_nano_core returned
    events,          \* the order of the steps parse_nano_core has taken
    \* ---- preemption.rs, step by step ----
    tasks            \* per task: the CPU it runs on and where it stands in hold / drop

preemptVars == <<count, timer, apic_calls, guards, aborted, last, lifo, regions, nops>>

parseVars == <<pc, symbol_file, strong, page_mapped, page_locked, scratch, fa_locked,
               shndx, section_counter, sections, loop_result, new_crate, input,
               new_syms, symbol_map, crate_tree, result, events>>

taskVars == <<tasks>>

vars == <<preemptVars, parseVars, taskVars>>

\* ------------------------------------------------------------------ bounds

\* CPUs of the modelled machine.
CPUs == {0, 1}

\* Most guards live at once in Spec.
MaxLive == 3

\* Most hold/release operations in one behaviour of Spec.
MaxOps == 6

\* Most symbol entries a parsed file holds.
MaxEntries == 2

\* Most entries of a well-formed list of globals.
MaxGlobals == 4

\* Tasks that acquire and release guards step by step.
Tasks == {"t1", "t2"}

\* Most acquisitions the tasks make together in SpecMigrate.
MaxAcquisitions == 3

\* u8::MAX, the largest value of the AtomicU8 counter.
U8_MAX == 255

\* ------------------------------------------------------- preemption.rs

\* Sequence s without its i-th element.
RemoveAt(s, i) == SubSeq(s, 1, i - 1) \o SubSeq(s, i + 1, Len(s))

\* Indices of the live guards created on CPU c.
GuardsOn(c) == {i \in 1..Len(guards) : guards[i].cpu_id = c}

\* Mutant of FetchAdd: the increment is lost.
FetchAdd_Lost(v) == v

\* AtomicU8::fetch_add(1): the new value wraps at 8 bits.
FetchAdd(v) == (v + 1) % (U8_MAX + 1)

\* Mutant of FetchSub: the decrement is lost.
FetchSub_Lost(v) == v

\* AtomicU8::fetch_sub(1): the new value wraps at 8 bits.
FetchSub(v) == (v - 1) % (U8_MAX + 1)

\* Mutant of PreemptionWasEnabled: off by one.
PreemptionWasEnabled_OffByOne(prev_val) == prev_val <= 1

\* let preemption_was_enabled = prev_val == 0;
PreemptionWasEnabled(prev_val) == prev_val = 0

\* Mutant of HoldDisablesTimer: the variant is ignored.
HoldDisablesTimer_AnyVariant(DISABLE_TIMER, preemption_was_enabled) ==
    preemption_was_enabled

\* Mutant of HoldDisablesTimer: the transition test is inverted.
HoldDisablesTimer_Inverted(DISABLE_TIMER, preemption_was_enabled) ==
    DISABLE_TIMER /\ ~preemption_was_enabled

\* if DISABLE_TIMER && preemption_was_enabled { ...enable_lvt_timer(false) }
HoldDisablesTimer(DISABLE_TIMER, preemption_was_enabled) ==
    DISABLE_TIMER /\ preemption_was_enabled

\* Mutant of HoldOverflows: the new value is tested instead of the previous one.
HoldOverflows_NewValue(prev_val) == prev_val + 1 = U8_MAX

\* else if prev_val == u8::MAX { panic!(overflow) }
HoldOverflows(prev_val) == prev_val = U8_MAX

\* Mutant of CpuIdsMatch: the assertion is compiled out.
CpuIdsMatch_NoAssert(guard_cpu_id, cpu_id) == TRUE

\* assert!(self.cpu_id == cpu_id, ...) of PreemptionGuard::drop
CpuIdsMatch(guard_cpu_id, cpu_id) == guard_cpu_id = cpu_id

\* Mutant of DropEnablesTimer: the new value is tested instead of the previous one.
DropEnablesTimer_NewValue(prev_val) == prev_val - 1 = 1

\* if prev_val == 1 { ...enable_lvt_timer(true) }
DropEnablesTimer(prev_val) == prev_val = 1

\* else if prev_val == 0 { panic!(underflow) }
DropUnderflows(prev_val) == prev_val = 0

\* apic::get_my_apic().write().enable_lvt_timer(enable) on CPU c (x86_64).
EnableLvtTimer(c, enable) ==
    /\ timer' = [timer EXCEPT ![c] = enable]
    /\ apic_calls' = [apic_calls EXCEPT ![c] = Append(@, enable)]

\* hold_preemption_internal::<DISABLE_TIMER>() executed on CPU c.  The guard
\* becomes droppable right after the increment, so the overflow panic drops it
\* when the build unwinds (the decrement then underflows and aborts) and leaves
\* the counter wrapped when the build aborts on panic.
hold_preemption_internal(c, DISABLE_TIMER) ==
    /\ aborted = "none"
    /\ LET cpu_id == c
           prev_val == count[c]
           preemption_was_enabled == PreemptionWasEnabled(prev_val)
           guard == [cpu_id |-> cpu_id,
                     preemption_was_enabled |-> preemption_was_enabled,
                     disable_timer |-> DISABLE_TIMER]
           disables == HoldDisablesTimer(DISABLE_TIMER, preemption_was_enabled)
           panics == ~disables /\ HoldOverflows(prev_val)
       IN  /\ last' = [op |-> "hold", cpu |-> c, guard |-> guard]
           /\ nops' = nops + 1
           /\ IF panics
              THEN /\ \E unwinds \in BOOLEAN :
                         count' = [count EXCEPT ![c] =
                                     IF unwinds THEN FetchSub(FetchAdd(prev_val))
                                                ELSE FetchAdd(prev_val)]
                   /\ aborted' = "overflow"
                   /\ UNCHANGED <<timer, apic_calls, guards, lifo, regions>>
              ELSE /\ count' = [count EXCEPT ![c] = FetchAdd(prev_val)]
                   /\ IF disables THEN EnableLvtTimer(c, FALSE)
                                  ELSE UNCHANGED <<timer, apic_calls>>
                   /\ guards' = Append(guards, guard)
                   /\ lifo' = [lifo EXCEPT ![c] = IF count[c] = 0 THEN TRUE ELSE @]
                   /\ regions' = [regions EXCEPT ![c] =
                                    IF count[c] = 0
                                    THEN Append(@, [disable_timer |-> DISABLE_TIMER,
                                                    closed |-> FALSE])
                                    ELSE @]
                   /\ UNCHANGED aborted

\* pub fn hold_preemption() on CPU c
hold_preemption(c) == hold_preemption_internal(c, TRUE)

\* pub fn hold_preemption_no_timer_disable() on CPU c
hold_preemption_no_timer_disable(c) == hold_preemption_internal(c, FALSE)

\* <PreemptionGuard as Drop>::drop of the live guard guards[i], executed on CPU c.
PreemptionGuard_drop(c, i) ==
    /\ aborted = "none"
    /\ i \in 1..Len(guards)
    /\ LET self == guards[i]
           cpu_id == c
           prev_val == count[c]
       IN  /\ last' = [op |-> "drop", cpu |-> c, guard |-> self]
           /\ nops' = nops + 1
           /\ IF ~CpuIdsMatch(self.cpu_id, cpu_id)
              THEN /\ aborted' = "cpu_mismatch"
                   /\ UNCHANGED <<count, timer, apic_calls, guards, lifo, regions>>
              ELSE /\ count' = [count EXCEPT ![c] = FetchSub(prev_val)]
                   /\ guards' = RemoveAt(guards, i)
                   /\ lifo' = [lifo EXCEPT ![c] =
                                 @ /\ \A j \in GuardsOn(c) : j <= i]
                   /\ regions' = [regions EXCEPT ![c] =
                                    IF count[c] = 1 /\ Len(@) > 0
                                    THEN [@ EXCEPT ![Len(@)].closed = TRUE]
                                    ELSE @]
                   /\ IF DropEnablesTimer(prev_val)
                      THEN EnableLvtTimer(c, TRUE) /\ UNCHANGED aborted
                      ELSE IF DropUnderflows(prev_val)
                      THEN aborted' = "underflow" /\ UNCHANGED <<timer, apic_calls>>
                      ELSE UNCHANGED <<timer, apic_calls, aborted>>

\* pub fn preemption_enabled() on CPU c
preemption_enabled(c) == count[c] = 0

NoGuard == [cpu_id |-> 0, preemption_was_enabled |-> FALSE, disable_timer |-> FALSE]

\* PreemptionCount::new() on every CPU, timers running, no guard yet.
PreemptInit ==
    /\ count = [c \in CPUs |-> 0]
    /\ timer = [c \in CPUs |-> TRUE]
    /\ apic_calls = [c \in CPUs |-> <<>>]
    /\ guards = <<>>
    /\ aborted = "none"
    /\ last = [op |-> "none", cpu |-> 0, guard |-> NoGuard]
    /\ lifo = [c \in CPUs |-> TRUE]
    /\ regions = [c \in CPUs |-> <<>>]
    /\ nops = 0

\* ---- hold_preemption_internal and drop, statement by statement, run by
\* tasks that the scheduler may move to another CPU between statements.

IdleTask(c) ==
    [pc |-> "idle", cpu |-> c, cpu_id |-> c, prev_val |-> 0, disable_timer |-> FALSE,
     guard |-> <<>>, counted |-> -1, rounds |-> 0]

TaskInit == tasks = [t \in Tasks |-> IdleTask(IF t = "t1" THEN 0 ELSE 1)]

\* CpuLocal::with_preempt(&guard, f): the guard's cpu_id must be the current
\* CPU (assertion); f then runs on the current CPU's field.
with_preempt_allowed(guard_cpu_id, current_cpu) == guard_cpu_id = current_cpu

\* Mutant of get_my_apic: the APIC of the CPU the guard names.
get_my_apic_OfGuard(guard_cpu_id, current_cpu) == guard_cpu_id

\* apic::get_my_apic(): the local APIC of the CPU the caller runs on.
get_my_apic(guard_cpu_id, current_cpu) == current_cpu

\* The scheduler moves task t to CPU c.
Migrate(t, c) ==
    /\ aborted = "none"
    /\ tasks[t].cpu # c
    /\ tasks[t].pc # "idle"
    /\ tasks' = [tasks EXCEPT ![t].cpu = c]
    /\ UNCHANGED preemptVars

\* let cpu_id = cpu::current_cpu(); and the placeholder guard built from it.
Acq_CurrentCpu(t, DISABLE_TIMER) ==
    /\ aborted = "none"
    /\ tasks[t].pc = "idle"
    /\ tasks["t1"].rounds + tasks["t2"].rounds < MaxAcquisitions
    /\ tasks' = [tasks EXCEPT ![t].pc = "acq_with_preempt",
                              ![t].cpu_id = tasks[t].cpu,
                              ![t].disable_timer = DISABLE_TIMER,
                              ![t].rounds = @ + 1]
    /\ UNCHANGED preemptVars

\* let prev_val = PREEMPTION_COUNT.with_preempt(&guard_placeholder, |count| fetch_add(1));
Acq_WithPreempt(t) ==
    /\ aborted = "none"
    /\ tasks[t].pc = "acq_with_preempt"
    /\ LET c == tasks[t].cpu
       IN  IF ~with_preempt_allowed(tasks[t].cpu_id, c)
           THEN /\ aborted' = "cpu_mismatch"
                /\ tasks' = [tasks EXCEPT ![t].pc = "aborted"]
                /\ UNCHANGED <<count, timer, apic_calls, guards, last, lifo, regions, nops>>
           ELSE /\ count' = [count EXCEPT ![c] = FetchAdd(count[c])]
                /\ tasks' = [tasks EXCEPT ![t].pc = "acq_timer",
                                          ![t].prev_val = count[c],
                                          ![t].counted = c]
                /\ UNCHANGED <<timer, apic_calls, guards, aborted, last, lifo, regions, nops>>

\* The guard takes preemption_was_enabled; the timer is disabled on the 0 -> 1
\* transition of the timer-disabling variant, else the overflow check; the
\* guard is returned.
Acq_Finish(t) ==
    /\ aborted = "none"
    /\ tasks[t].pc = "acq_timer"
    /\ LET preemption_was_enabled == PreemptionWasEnabled(tasks[t].prev_val)
           guard == [cpu_id |-> tasks[t].cpu_id,
                     preemption_was_enabled |-> preemption_was_enabled,
                     disable_timer |-> tasks[t].disable_timer]
       IN  IF HoldDisablesTimer(tasks[t].disable_timer, preemption_was_enabled)
           THEN /\ EnableLvtTimer(get_my_apic(tasks[t].cpu_id, tasks[t].cpu), FALSE)
                /\ tasks' = [tasks EXCEPT ![t].pc = "holding", ![t].guard = <<guard>>]
                /\ UNCHANGED <<count, guards, aborted, last, lifo, regions, nops>>
           ELSE IF HoldOverflows(tasks[t].prev_val)
           THEN /\ aborted' = "overflow"
                /\ tasks' = [tasks EXCEPT ![t].pc = "aborted"]
                /\ UNCHANGED <<count, timer, apic_calls, guards, last, lifo, regions, nops>>
           ELSE /\ tasks' = [tasks EXCEPT ![t].pc = "holding", ![t].guard = <<guard>>]
                /\ UNCHANGED preemptVars

\* drop: let cpu_id = cpu::current_cpu(); assert!(self.cpu_id == cpu_id, ..);
Drop_Assert(t) ==
    /\ aborted = "none"
    /\ tasks[t].pc = "holding"
    /\ IF ~CpuIdsMatch(tasks[t].guard[1].cpu_id, tasks[t].cpu)
       THEN /\ aborted' = "cpu_mismatch"
            /\ tasks' = [tasks EXCEPT ![t].pc = "aborted"]
            /\ UNCHANGED <<count, timer, apic_calls, guards, last, lifo, regions, nops>>
       ELSE /\ tasks' = [tasks EXCEPT ![t].pc = "drop_with_preempt"]
            /\ UNCHANGED preemptVars

\* drop: let prev_val = PREEMPTION_COUNT.with_preempt(self, |count| fetch_sub(1));
Drop_WithPreempt(t) ==
    /\ aborted = "none"
    /\ tasks[t].pc = "drop_with_preempt"
    /\ LET c == tasks[t].cpu
       IN  IF ~with_preempt_allowed(tasks[t].guard[1].cpu_id, c)
           THEN /\ aborted' = "cpu_mismatch"
                /\ tasks' = [tasks EXCEPT ![t].pc = "aborted"]
                /\ UNCHANGED <<count, timer, apic_calls, guards, last, lifo, regions, nops>>
           ELSE /\ count' = [count EXCEPT ![c] = FetchSub(count[c])]
                /\ tasks' = [tasks EXCEPT ![t].pc = "drop_timer", ![t].prev_val = count[c]]
                /\ UNCHANGED <<timer, apic_calls, guards, aborted, last, lifo, regions, nops>>

\* drop: the timer is enabled again on the 1 -> 0 transition, else the
\* underflow check; the guard is gone.
Drop_Finish(t) ==
    /\ aborted = "none"
    /\ tasks[t].pc = "drop_timer"
    /\ IF DropEnablesTimer(tasks[t].prev_val)
       THEN /\ EnableLvtTimer(get_my_apic(tasks[t].guard[1].cpu_id, tasks[t].cpu), TRUE)
            /\ tasks' = [tasks EXCEPT ![t].pc = "idle", ![t].guard = <<>>, ![t].counted = -1]
            /\ UNCHANGED <<count, guards, aborted, last, lifo, regions, nops>>
       ELSE IF DropUnderflows(tasks[t].prev_val)
       THEN /\ aborted' = "underflow"
            /\ tasks' = [tasks EXCEPT ![t].pc = "aborted"]
            /\ UNCHANGED <<count, timer, apic_calls, guards, last, lifo, regions, nops>>
       ELSE /\ tasks' = [tasks EXCEPT ![t].pc = "idle", ![t].guard = <<>>, ![t].counted = -1]
            /\ UNCHANGED preemptVars

\* ---------------------------------------------------- parse_nano_core.rs

\* The three page handles passed to parse_nano_core, by the local that holds each.
Pages == {"text_pages", "rodata_pages", "data_pages"}

\* The virtual range each of the three MappedPages covers (the caller's input).
PageRange ==
    [text_pages   |-> [start |-> 16, size |-> 16],
     rodata_pages |-> [start |-> 32, size |-> 16],
     data_pages   |-> [start |-> 48, size |-> 16]]

\* Option::None and Err of a numeric result.
None == -1

\* MappedPages::offset_of_address(vaddr): the offset of vaddr in the pages, or
\* None when the pages do not cover it.
offset_of_address(p, vaddr) ==
    IF vaddr >= PageRange[p].start /\ vaddr < PageRange[p].start + PageRange[p].size
    THEN vaddr - PageRange[p].start
    ELSE None

\* char::to_digit(radix), None for a character that is no digit of the radix.
ToDigit(ch, radix) ==
    LET v == CASE ch = "0" -> 0 [] ch = "1" -> 1 [] ch = "2" -> 2 [] ch = "3" -> 3
               [] ch = "4" -> 4 [] ch = "5" -> 5 [] ch = "6" -> 6 [] ch = "7" -> 7
               [] ch = "8" -> 8 [] ch = "9" -> 9
               [] ch \in {"a", "A"} -> 10 [] ch \in {"b", "B"} -> 11
               [] ch \in {"c", "C"} -> 12 [] ch \in {"d", "D"} -> 13
               [] ch \in {"e", "E"} -> 14 [] ch \in {"f", "F"} -> 15
               [] OTHER -> None
    IN  IF v # None /\ v < radix THEN v ELSE None

RECURSIVE DigitsValue(_, _, _)
DigitsValue(s, radix, acc) ==
    IF s = <<>> THEN acc
    ELSE IF ToDigit(Head(s), radix) = None THEN None
    ELSE DigitsValue(Tail(s), radix, acc * radix + ToDigit(Head(s), radix))

\* usize::from_str_radix(s, radix) on a field given as its characters: None
\* for Err (an empty field, a lone sign, a character that is no digit).
from_str_radix(s, radix) ==
    LET digits == IF s # <<>> /\ Head(s) = "+" THEN Tail(s) ELSE s
    IN  IF digits = <<>> THEN None ELSE DigitsValue(digits, radix, 0)

\* The size column: decimal first, else hexadecimal after dropping the first
\* two characters (sec_size.get(2 ..)), whatever they are.
ParseSecSize(sec_size) ==
    IF from_str_radix(sec_size, 10) # None THEN from_str_radix(sec_size, 10)
    ELSE IF Len(sec_size) >= 2 THEN from_str_radix(SubSeq(sec_size, 3, Len(sec_size)), 16)
    ELSE None

\* str::split("#") on the name column: the pieces between the '#' characters.
RECURSIVE SplitHash(_, _)
SplitHash(s, cur) ==
    IF s = <<>> THEN <<cur>>
    ELSE IF Head(s) = "#" THEN <<cur>> \o SplitHash(Tail(s), <<>>)
    ELSE SplitHash(Tail(s), Append(cur, Head(s)))

\* Mutant of SplitNameHash: the third token is never asked for.
SplitNameHash_NoThirdToken(name_hash) ==
    LET tokens == SplitHash(name_hash, <<>>)
    IN  [no_hash  |-> tokens[1],
         hash     |-> IF Len(tokens) >= 2 THEN <<tokens[2]>> ELSE <<>>,
         multiple |-> FALSE]

\* let (no_hash, hash) = ...: the name before the first '#', the hash after it
\* (None without '#'), and whether a third token exists (more than one '#').
SplitNameHash(name_hash) ==
    LET tokens == SplitHash(name_hash, <<>>)
    IN  [no_hash  |-> tokens[1],
         hash     |-> IF Len(tokens) >= 2 THEN <<tokens[2]>> ELSE <<>>,
         multiple |-> Len(tokens) >= 3]


\* let crate_name = String::from("nano_core");
CrateName == "nano_core"

\* Mutant of try_mp: two handles are swapped in the returned array.
try_mp_Swapped(err_msg, tp, rp, dp) == [msg |-> err_msg, pages |-> <<tp, dp, rp>>]

\* macro try_mp!: Err(err_msg) => return Err((err_msg, [$tp, $rp, $dp]))
try_mp(err_msg, tp, rp, dp) == [msg |-> err_msg, pages |-> <<tp, rp, dp>>]

\* Mutant of FrameAllocatorLockedAfterBlock: the guard is bound outside the
\* block and lives to the end of the function.
FrameAllocatorLockedAfterBlock_Leaked == TRUE

\* let temp_module_mapping = { ...; let mut frame_allocator = ...lock(); ... };
\* the lock guard is a local of the block and is dropped where the block ends.
FrameAllocatorLockedAfterBlock == FALSE

\* Number of sections of the local map that hold a clone of handle p.
SectionsOn(p) == Cardinality({id \in DOMAIN sections : sections[id].pages = p})

\* Append to the event log.
Log(es) == events' = events \o es

\* return Err(err) out of parse_nano_core, from wherever it stands: the locals
\* go out of scope.  The frame allocator guard (inside the mapping block),
\* the scratch mapping moved into the parser, the crate under construction
\* and the local section map are dropped; a page handle that is not in the
\* returned array is dropped with them, and its pages are unmapped when its
\* last Arc goes.
ReturnErrReading(err, read) ==
    LET kept(p) == IF \E i \in 1..Len(err.pages) : err.pages[i] = p THEN 1 ELSE 0
        left(p) == kept(p) + (strong[p] - 1
                                 - (IF new_crate.exists THEN 1 ELSE 0)
                                 - SectionsOn(p))
    IN  /\ result' = [kind |-> "Err", msg |-> err.msg, pages |-> err.pages, count |-> 0]
        /\ pc' = "done"
        /\ fa_locked' = FALSE
        /\ scratch' = IF scratch = "mapped" THEN "unmapped" ELSE scratch
        /\ strong' = [p \in Pages |-> left(p)]
        /\ page_mapped' = [p \in Pages |-> page_mapped[p] /\ left(p) > 0]
        /\ new_crate' = [new_crate EXCEPT !.exists = FALSE, !.strong = 0]
        /\ sections' = <<>>
        /\ Log((IF scratch = "mapped" THEN <<"scratch_unmapped">> ELSE <<>>)
               \o <<"return_err">>)
        /\ input' = read
        /\ UNCHANGED <<symbol_file, page_locked, shndx, section_counter, loop_result,
                       new_syms, symbol_map, crate_tree>>

ReturnErr(err) == ReturnErrReading(err, input)

\* A step of parse_nano_core that only moves on to `next`.
Goto(next) ==
    /\ pc' = next
    /\ UNCHANGED <<symbol_file, strong, page_mapped, page_locked, scratch, fa_locked,
                   shndx, section_counter, sections, loop_result, new_crate, input,
                   new_syms, symbol_map, crate_tree, result, events>>

\* let module = try_mp!(get_module("k#nano_core").ok_or(...), ...);
GetModule ==
    /\ pc = "get_module"
    /\ \E found \in BOOLEAN :
          IF found THEN Goto("check_aligned")
          ELSE ReturnErr(try_mp("Couldn't find nano_core module",
                                "text_pages", "rodata_pages", "data_pages"))

\* if !address_is_page_aligned(module.start_address()) { return Err(...) }
CheckAligned ==
    /\ pc = "check_aligned"
    /\ \E aligned \in BOOLEAN :
          IF aligned THEN Goto("page_table")
          ELSE ReturnErr([msg |-> "nano_core module was not page aligned",
                          pages |-> <<"text_pages", "rodata_pages", "data_pages">>])

\* if let PageTable::Active(ref mut active_table) = kernel_mmi.page_table {...} else {...}
GetPageTable ==
    /\ pc = "page_table"
    /\ \E active \in BOOLEAN :
          IF active THEN Goto("allocate_pages")
          ELSE ReturnErr([msg |-> "couldn't get kernel's active page table",
                          pages |-> <<"text_pages", "rodata_pages", "data_pages">>])

\* let new_pages = try_mp!(allocate_pages_by_bytes(size).ok_or(...), ...);
AllocatePages ==
    /\ pc = "allocate_pages"
    /\ \E allocated \in BOOLEAN :
          IF allocated THEN Goto("lock_frame_allocator")
          ELSE ReturnErr(try_mp("couldn't allocate pages for nano_core module",
                                "text_pages", "rodata_pages", "data_pages"))

\* let mut frame_allocator = try_mp!(FRAME_ALLOCATOR.try().ok_or(...), ...).lock();
LockFrameAllocator ==
    /\ pc = "lock_frame_allocator"
    /\ \E available \in BOOLEAN :
          IF available
          THEN /\ fa_locked' = TRUE
               /\ pc' = "map_pages"
               /\ UNCHANGED <<symbol_file, strong, page_mapped, page_locked, scratch,
                              shndx, section_counter, sections, loop_result, new_crate,
                              input, new_syms, symbol_map, crate_tree, result, events>>
          ELSE ReturnErr(try_mp("couldn't get FRAME_ALLOCATOR",
                                "text_pages", "rodata_pages", "data_pages"))

\* try_mp!(active_table.map_allocated_pages_to(...), ...) and the end of the
\* block; then the call of the parser the build selects.
MapPages ==
    /\ pc = "map_pages"
    /\ \E mapped \in BOOLEAN :
          IF mapped
          THEN /\ scratch' = "mapped"
               /\ fa_locked' = FrameAllocatorLockedAfterBlock
               /\ pc' = IF symbol_file THEN "sf_null_byte" ELSE "bin_open"
               /\ Log(<<"scratch_mapped">>)
               /\ UNCHANGED <<symbol_file, strong, page_mapped, page_locked,
                              shndx, section_counter, sections, loop_result, new_crate,
                              input, new_syms, symbol_map, crate_tree, result>>
          ELSE ReturnErr(try_mp("map_allocated_pages_to failed",
                                "text_pages", "rodata_pages", "data_pages"))

\* ---- parse_nano_core_symbol_file

\* One line of the section-header part of the symbol file: the section name
\* and type it contains and what parse_section_ndx reads between its brackets.
HeaderLine(name, typ, ndx) == [name |-> name, typ |-> typ, ndx |-> ndx]

\* The section-header parts a symbol file may hold: the four sections (after a
\* section the parser does not look for), under two numberings, and files
\* that lack one of the four.
HeaderSets ==
    LET init   == HeaderLine(".init", "PROGBITS", 5)
        text   == HeaderLine(".text", "PROGBITS", 1)
        rodata == HeaderLine(".rodata", "PROGBITS", 2)
        data   == HeaderLine(".data", "PROGBITS", 3)
        bss    == HeaderLine(".bss", "NOBITS", 4)
    IN  { <<init, text, rodata, data, bss>>,
          <<HeaderLine(".text", "PROGBITS", 6), HeaderLine(".rodata", "PROGBITS", 7),
            HeaderLine(".data", "PROGBITS", 8), HeaderLine(".bss", "NOBITS", 9)>>,
          <<init, rodata, data, bss>>,
          <<init, text, data, bss>>,
          <<init, text, rodata, bss>>,
          <<init, text, rodata, data>>,
          <<init, text, rodata, data, HeaderLine(".bss", "PROGBITS", 4)>> }

NoShndx == [text |-> None, rodata |-> None, data |-> None, bss |-> None]

AllFound(ndx) ==
    ndx.text # None /\ ndx.rodata # None /\ ndx.data # None /\ ndx.bss # None

\* The first pass: for each line, the first of the four patterns it matches
\* sets that section's index; the pass stops once all four are set.
RECURSIVE FindSectionIndices(_, _)
FindSectionIndices(lines, ndx) ==
    IF lines = <<>> THEN ndx
    ELSE LET line == Head(lines)
             found ==
                 IF line.name = ".text" /\ line.typ = "PROGBITS"
                 THEN [ndx EXCEPT !.text = line.ndx]
                 ELSE IF line.name = ".data" /\ line.typ = "PROGBITS"
                 THEN [ndx EXCEPT !.data = line.ndx]
                 ELSE IF line.name = ".rodata" /\ line.typ = "PROGBITS"
                 THEN [ndx EXCEPT !.rodata = line.ndx]
                 ELSE IF line.name = ".bss" /\ line.typ = "NOBITS"
                 THEN [ndx EXCEPT !.bss = line.ndx]
                 ELSE ndx
         IN  IF AllFound(found) THEN found ELSE FindSectionIndices(Tail(lines), found)

\* A line of the symbol table, as the columns splitn(8, ..) yields, each
\* column by its characters.
SymLine(value, size, ndx, name) ==
    << <<"1">>, value, size, <<"F">>, <<"G">>, <<"D">>, ndx, name >>

\* The symbol-table lines a file may hold.  Addresses 0x11, 0x12 lie in
\* text_pages, 0x21 in rodata_pages, 0x31 and 0x3f in data_pages.
SymbolLines ==
    LET abs == <<"A", "B", "S">>
    IN  { SymLine(<<"1","1">>, <<"8">>, <<"1">>, <<"f">>),
          SymLine(<<"1","2">>, <<"8">>, <<"6">>, <<"f">>),
          SymLine(<<"2","1">>, <<"0","x","1","f">>, <<"2">>, <<"r","#","h">>),
          SymLine(<<"3","1">>, <<"4">>, <<"3">>, <<"d">>),
          SymLine(<<"3","f">>, <<"1">>, <<"4">>, <<"b">>),
          SymLine(<<"1","1">>, <<"8">>, <<"5">>, <<"i">>),
          SymLine(<<"0">>, <<"0">>, abs, <<"a">>),
          SymLine(<<"z","z">>, <<"0">>, abs, <<"a">>),
          SymLine(<<"0">>, <<"1","f">>, abs, <<"a">>),
          SymLine(<<"0">>, <<"0">>, abs, <<"a","#","b","#","c">>),
          SymLine(<<"f","f">>, <<"8">>, <<"1">>, <<"f">>),
          SymLine(<<"1","1">>, <<"8">>, <<"2">>, <<"r">>),
          SymLine(<<"1","1">>, <<"8">>, <<"3">>, <<"d">>),
          SymLine(<<"1","1">>, <<"8">>, <<"4">>, <<"b">>),
          SymLine(<<"z","z">>, <<"8">>, <<"1">>, <<"f">>),
          SymLine(<<"1","1">>, <<"1","f">>, <<"1">>, <<"f">>),
          SymLine(<<"1","1">>, <<"8">>, <<"1">>, <<"f","#","a","#","b">>),
          SymLine(<<"1","1">>, <<"8">>, <<"1">>, <<"f","#">>),
          SymLine(<<"1","1">>, <<"8">>, <<"1">>, <<"#","h">>),
          << <<"1">>, <<"1","1">>, <<"8">>, <<"F">>, <<"G">>, <<"D">>, <<"1">> >>,
          <<>> }

\* LoadedSection::new(typ, name, hash, pages, offset, vaddr, size, global, parent)
LoadedSection(typ, name, hash, pages, offset, vaddr, size, global) ==
    [typ |-> typ, name |-> name, hash |-> hash, pages |-> pages, offset |-> offset,
     virtual_address |-> vaddr, size |-> size, global |-> global,
     parent_crate |-> CrateName]

\* Mutant of ClassifyShndx: a .data entry is given the kind of a .bss entry.
ClassifyShndx_DataAsBss(sec_ndx) ==
    IF sec_ndx = shndx.text THEN [typ |-> "Text", pages |-> "text_pages"]
    ELSE IF sec_ndx = shndx.rodata THEN [typ |-> "Rodata", pages |-> "rodata_pages"]
    ELSE IF sec_ndx = shndx.data THEN [typ |-> "Bss", pages |-> "data_pages"]
    ELSE IF sec_ndx = shndx.bss THEN [typ |-> "Bss", pages |-> "data_pages"]
    ELSE [typ |-> "none", pages |-> "none"]

\* Mutant of ClassifyShndx: a .bss entry is placed in rodata_pages.
ClassifyShndx_BssInRodata(sec_ndx) ==
    IF sec_ndx = shndx.text THEN [typ |-> "Text", pages |-> "text_pages"]
    ELSE IF sec_ndx = shndx.rodata THEN [typ |-> "Rodata", pages |-> "rodata_pages"]
    ELSE IF sec_ndx = shndx.data THEN [typ |-> "Data", pages |-> "data_pages"]
    ELSE IF sec_ndx = shndx.bss THEN [typ |-> "Bss", pages |-> "rodata_pages"]
    ELSE [typ |-> "none", pages |-> "none"]

\* The kind and owning pages an entry's section index selects, in the order
\* of the if / else if chain; "none" for an index that is none of the four.
ClassifyShndx(sec_ndx) ==
    IF sec_ndx = shndx.text THEN [typ |-> "Text", pages |-> "text_pages"]
    ELSE IF sec_ndx = shndx.rodata THEN [typ |-> "Rodata", pages |-> "rodata_pages"]
    ELSE IF sec_ndx = shndx.data THEN [typ |-> "Data", pages |-> "data_pages"]
    ELSE IF sec_ndx = shndx.bss THEN [typ |-> "Bss", pages |-> "data_pages"]
    ELSE [typ |-> "none", pages |-> "none"]

\* "nano_core <kind> section wasn't covered by its mapped pages!"
NotCoveredMsg(typ) ==
    CASE typ = "Text"   -> "nano_core text section wasn't covered by its mapped pages!"
      [] typ = "Rodata" -> "nano_core rodata section wasn't covered by its mapped pages!"
      [] typ = "Data"   -> "nano_core data section wasn't covered by its mapped pages!"
      [] typ = "Bss"    -> "nano_core bss section wasn't covered by its mapped pages!"

\* "couldn't get column k" for the first column a short line lacks.
MissingColumnMsg(k) ==
    CASE k = 0 -> "couldn't get column 0 'Num'"   [] k = 1 -> "couldn't get column 1 'Value'"
      [] k = 2 -> "couldn't get column 2 'Size'"  [] k = 3 -> "couldn't get column 3 'Type'"
      [] k = 4 -> "couldn't get column 4 'Bind'"  [] k = 5 -> "couldn't get column 5 'Vis'"
      [] k = 6 -> "couldn't get column 6 'Ndx'"   [] k = 7 -> "couldn't get column 7 'Name'"

\* Mutant of SectionKey: the counter is advanced before it is used.
SectionKey_FromOne(counter) == counter + 1

\* Mutant of SectionKey: every section goes under the same key.
SectionKey_Constant(counter) == 0

\* The key under which the loop body inserts a section.
SectionKey(counter) == counter

\* Mutant of SymbolLineStep: an index that is no number is an error, as a
\* value or a size that is no number is.
SymbolLineStep_NdxRequired(line) ==
    LET skip(a) == [act |-> a, err |-> "ok", sec |-> <<>>]
        fail(m) == [act |-> "break", err |-> m, sec |-> <<>>]
    IN  IF line = <<>> THEN skip("continue")
        ELSE IF Len(line) < 8 THEN fail(MissingColumnMsg(Len(line)))
        ELSE
        LET name      == SplitNameHash(line[8])
            sec_vaddr == from_str_radix(line[2], 16)
            sec_size  == ParseSecSize(line[3])
            sec_ndx   == from_str_radix(line[7], 10)
            kind      == ClassifyShndx(sec_ndx)
        IN  IF name.multiple
            THEN fail("'Name' column had multiple '#' characters, expected only one '#' as the hash separator!")
            ELSE IF sec_vaddr = None THEN fail("couldn't parse virtual address (value column)")
            ELSE IF sec_size = None THEN fail("couldn't parse size column")
            ELSE IF sec_ndx = None THEN fail("couldn't parse section index (ndx column)")
            ELSE IF kind.typ = "none" THEN skip("advance")
            ELSE IF offset_of_address(kind.pages, sec_vaddr) = None
            THEN fail(NotCoveredMsg(kind.typ))
            ELSE [act |-> "insert", err |-> "ok",
                  sec |-> <<LoadedSection(kind.typ, name.no_hash, name.hash, kind.pages,
                                          offset_of_address(kind.pages, sec_vaddr),
                                          sec_vaddr, sec_size, TRUE)>>]

\* What one pass of the loop body does with `line`:
\*   "continue" (line skipped), "break" (try_break!: err is stored and the loop
\*   ends), "insert" (a section is inserted and the counter advances) or
\*   "advance" (no section, the counter advances).
SymbolLineStep(line) ==
    LET skip(a) == [act |-> a, err |-> "ok", sec |-> <<>>]
        fail(m) == [act |-> "break", err |-> m, sec |-> <<>>]
    IN  IF line = <<>> THEN skip("continue")
        ELSE IF Len(line) < 8 THEN fail(MissingColumnMsg(Len(line)))
        ELSE
        LET name      == SplitNameHash(line[8])
            sec_vaddr == from_str_radix(line[2], 16)
            sec_size  == ParseSecSize(line[3])
            sec_ndx   == from_str_radix(line[7], 10)
            kind      == ClassifyShndx(sec_ndx)
        IN  IF name.multiple
            THEN fail("'Name' column had multiple '#' characters, expected only one '#' as the hash separator!")
            ELSE IF sec_vaddr = None THEN fail("couldn't parse virtual address (value column)")
            ELSE IF sec_size = None THEN fail("couldn't parse size column")
            ELSE IF sec_ndx = None THEN skip("continue")
            ELSE IF kind.typ = "none" THEN skip("advance")
            ELSE IF offset_of_address(kind.pages, sec_vaddr) = None
            THEN fail(NotCoveredMsg(kind.typ))
            ELSE [act |-> "insert", err |-> "ok",
                  sec |-> <<LoadedSection(kind.typ, name.no_hash, name.hash, kind.pages,
                                          offset_of_address(kind.pages, sec_vaddr),
                                          sec_vaddr, sec_size, TRUE)>>]

\* let null_byte: &mut u8 = try_mp!(mapped_pages.as_type_mut(size - 1), ...);
Sym_NullByte ==
    /\ pc = "sf_null_byte"
    /\ \E writable \in BOOLEAN :
          IF writable THEN Goto("sf_new_crate")
          ELSE ReturnErr(try_mp("as_type_mut failed",
                                "text_pages", "rodata_pages", "data_pages"))

\* Mutant of BackReferenceIsStrong: each section is given a clone of the
\* crate reference itself.
BackReferenceIsStrong_Cloned == TRUE

\* let new_crate_weak_ref = CowArc::downgrade(&new_crate); each section gets
\* new_crate_weak_ref.clone(), which adds no strong reference to the crate.
BackReferenceIsStrong == FALSE

\* CowArc::lock_as_mut(): exclusive access, given only to the holder of the
\* one strong reference.
lock_as_mut(crate) == crate.strong = 1

\* CowArc::new(LoadedCrate {...}) with a clone of each page handle, and
\* CowArc::downgrade for the sections' back-reference.
NewCrate(next) ==
    /\ new_crate' = [exists |-> TRUE, strong |-> 1, name |-> CrateName, sections |-> <<>>]
    /\ strong' = [p \in Pages |-> strong[p] + 1]
    /\ pc' = next
    /\ UNCHANGED <<symbol_file, page_mapped, page_locked, scratch, fa_locked, shndx,
                   section_counter, sections, loop_result, input, new_syms,
                   symbol_map, crate_tree, result, events>>

Sym_NewCrate == pc = "sf_new_crate" /\ NewCrate("sf_read_string")

\* as_slice_mut, CStr::from_bytes_with_nul and CStr::to_str on the mapping.
Sym_ReadString ==
    /\ pc = "sf_read_string"
    /\ \E sliced \in BOOLEAN, nul_terminated \in BOOLEAN, utf8 \in BOOLEAN :
          IF ~sliced
          THEN ReturnErr(try_mp("as_slice_mut failed",
                                "text_pages", "rodata_pages", "data_pages"))
          ELSE IF ~nul_terminated
          THEN ReturnErr(try_mp("FromBytesWithNulError occurred when casting nano_core symbol memory to CStr",
                                "text_pages", "rodata_pages", "data_pages"))
          ELSE IF ~utf8
          THEN ReturnErr(try_mp("Utf8Error occurred when parsing nano_core symbols CStr",
                                "text_pages", "rodata_pages", "data_pages"))
          ELSE Goto("sf_find_sections")

\* The first pass and the four try_mp!(..._shndx.ok_or(...)) after it.
Sym_FindSections ==
    /\ pc = "sf_find_sections"
    /\ \E headers \in HeaderSets :
          LET found == FindSectionIndices(headers, NoShndx)
              keep  == UNCHANGED <<symbol_file, strong, page_mapped, page_locked, scratch,
                                   fa_locked, section_counter, sections, loop_result,
                                   new_crate, new_syms, symbol_map, crate_tree, result,
                                   events>>
          IN  IF found.text = None
              THEN ReturnErr(try_mp("couldn't find .text section index",
                                    "text_pages", "rodata_pages", "data_pages"))
              ELSE IF found.rodata = None
              THEN ReturnErr(try_mp("couldn't find .rodata section index",
                                    "text_pages", "rodata_pages", "data_pages"))
              ELSE IF found.data = None
              THEN ReturnErr(try_mp("couldn't find .data section index",
                                    "text_pages", "rodata_pages", "data_pages"))
              ELSE IF found.bss = None
              THEN ReturnErr(try_mp("couldn't find .bss section index",
                                    "text_pages", "rodata_pages", "data_pages"))
              ELSE /\ shndx' = found
                   /\ input' = [input EXCEPT !.headers = headers]
                   /\ pc' = "sf_lock_pages"
                   /\ keep

\* Skipping to the symbol table, then text_pages.lock(), rodata_pages.lock(),
\* data_pages.lock() in front of the loop.
LockPages(next) ==
    /\ page_locked' = [p \in Pages |-> TRUE]
    /\ loop_result' = "ok"
    /\ pc' = next
    /\ UNCHANGED <<symbol_file, strong, page_mapped, scratch, fa_locked, shndx,
                   section_counter, sections, new_crate, input, new_syms, symbol_map,
                   crate_tree, result, events>>

Sym_LockPages == pc = "sf_lock_pages" /\ LockPages("sf_loop")

\* One pass of `for (_line_num, line) in file_iterator`, the line drawn from
\* `lines`, in a file of at most `max` lines.
Sym_LineFrom(lines, max) ==
    /\ pc = "sf_loop"
    /\ Len(input.entries) < max
    /\ \E line \in lines :
          LET step == SymbolLineStep(line)
          IN  /\ input' = [input EXCEPT !.entries = Append(@, line)]
              /\ loop_result' = IF step.act = "break" THEN step.err ELSE loop_result
              /\ pc' = IF step.act = "break" THEN "sf_unlock" ELSE "sf_loop"
              /\ sections' = IF step.act = "insert"
                             THEN (SectionKey(section_counter) :> step.sec[1]) @@ sections
                             ELSE sections
              /\ strong' = IF step.act = "insert"
                           THEN [strong EXCEPT ![step.sec[1].pages] = @ + 1]
                           ELSE strong
              /\ new_crate' = IF step.act = "insert" /\ BackReferenceIsStrong
                               THEN [new_crate EXCEPT !.strong = @ + 1]
                               ELSE new_crate
              /\ section_counter' = IF step.act \in {"insert", "advance"}
                                    THEN section_counter + 1
                                    ELSE section_counter
              /\ UNCHANGED <<symbol_file, page_mapped, page_locked, scratch, fa_locked,
                             shndx, new_syms, symbol_map, crate_tree, result,
                             events>>

Sym_Line == Sym_LineFrom(SymbolLines, MaxEntries)

\* The lines of a well-formed list of globals: every column parses, the index
\* is one of 1..4 and the address lies in the pages of its section.
GlobalLines ==
    { SymLine(<<"1","1">>, <<"8">>, <<"1">>, <<"f">>),
      SymLine(<<"1","2">>, <<"8">>, <<"1">>, <<"g">>),
      SymLine(<<"2","1">>, <<"0","x","1","f">>, <<"2">>, <<"r","#","h">>),
      SymLine(<<"3","1">>, <<"4">>, <<"3">>, <<"d">>),
      SymLine(<<"3","2">>, <<"4">>, <<"3">>, <<"e">>),
      SymLine(<<"3","f">>, <<"1">>, <<"4">>, <<"b">>) }

\* One pass of the loop over a well-formed list of at most MaxGlobals globals.
Sym_GlobalLine == Sym_LineFrom(GlobalLines, MaxGlobals)

\* The iterator is exhausted: the loop ends.
Sym_EndOfFile == pc = "sf_loop" /\ Goto("sf_unlock")

\* Mutant of UnlockPages: the guard of data_pages outlives the block.
UnlockPages_DataHeld(next) ==
    /\ page_locked' = [p \in Pages |-> p = "data_pages"]
    /\ pc' = next
    /\ UNCHANGED <<symbol_file, strong, page_mapped, scratch, fa_locked, shndx,
                   section_counter, sections, loop_result, new_crate, input, new_syms,
                   symbol_map, crate_tree, result, events>>

\* The end of the block that holds the three lock guards.
UnlockPages(next) ==
    /\ page_locked' = [p \in Pages |-> FALSE]
    /\ pc' = next
    /\ UNCHANGED <<symbol_file, strong, page_mapped, scratch, fa_locked, shndx,
                   section_counter, sections, loop_result, new_crate, input, new_syms,
                   symbol_map, crate_tree, result, events>>

Sym_Unlock == pc = "sf_unlock" /\ UnlockPages("sf_check_loop")

\* Mutant of CheckLoopResult: the error the loop stored is not returned.
CheckLoopResult_Ignored(next) == Goto(next)

\* try_mp!(loop_result, text_pages, rodata_pages, data_pages);
CheckLoopResult(next) ==
    IF loop_result = "ok" THEN Goto(next)
    ELSE ReturnErr(try_mp(loop_result, "text_pages", "rodata_pages", "data_pages"))

Sym_CheckLoop == pc = "sf_check_loop" /\ CheckLoopResult("sf_set_sections")

\* new_crate.lock_as_mut() (exclusive access needs the only strong reference),
\* new_crate_mut.sections = sections, Ok(new_crate): the parser returns, its
\* mapped_pages parameter is dropped and so are its three page handles.
SetSections ==
    IF ~lock_as_mut(new_crate)
    THEN ReturnErr(try_mp("BUG: couldn't get exclusive mutable access to new_crate",
                          "text_pages", "rodata_pages", "data_pages"))
    ELSE /\ new_crate' = [new_crate EXCEPT !.sections = sections]
         /\ sections' = <<>>
         /\ strong' = [p \in Pages |-> strong[p] - 1]
         /\ page_mapped' = [p \in Pages |-> page_mapped[p] /\ strong[p] - 1 > 0]
         /\ scratch' = "unmapped"
         /\ Log(<<"parser_returned", "scratch_unmapped">>)
         /\ pc' = "add_symbols"
         /\ UNCHANGED <<symbol_file, page_locked, fa_locked, shndx, section_counter,
                        loop_result, input, new_syms, symbol_map, crate_tree, result>>

Sym_SetSections == pc = "sf_set_sections" /\ SetSections

\* ---- parse_nano_core_binary

\* One section header of the ELF file; name "?" stands for get_name() failing.
ElfSection(typ, size, name, flags) ==
    [typ |-> typ, size |-> size, name |-> name, flags |-> flags]

\* The section tables an ELF file may hold, section 0 first.
ElfSectionTables ==
    LET null   == ElfSection("Null", 0, "", {})
        text   == ElfSection("ProgBits", 64, ".text", {"ALLOC", "EXECINSTR"})
        rodata == ElfSection("ProgBits", 64, ".rodata", {"ALLOC"})
        data   == ElfSection("ProgBits", 64, ".data", {"ALLOC", "WRITE"})
        bss    == ElfSection("NoBits", 64, ".bss", {"ALLOC", "WRITE"})
    IN  { <<null, text, rodata, data, bss>>,
          <<null, text, ElfSection("ProgBits", 64, ".rodata", {"ALLOC", "MERGE"}), data, bss>>,
          <<null, ElfSection("ProgBits", 0, ".text", {"ALLOC"}), rodata, data, bss, text>>,
          <<null, ElfSection("ProgBits", 64, ".text", {"ALLOC"}), rodata, data, bss>>,
          <<null, text, ElfSection("ProgBits", 64, ".rodata", {"ALLOC", "WRITE"}), data, bss>>,
          <<null, text, rodata, ElfSection("ProgBits", 64, ".data", {"ALLOC"}), bss>>,
          <<null, text, rodata, data, ElfSection("NoBits", 64, ".bss", {"ALLOC"})>>,
          <<null, rodata, data, bss>>,
          <<null, text, data, bss>>,
          <<null, text, rodata, bss>>,
          <<null, text, rodata, data>>,
          <<null, ElfSection("ProgBits", 64, "?", {"ALLOC"}), text, rodata, data, bss,
            ElfSection("ProgBits", 64, ".comment", {})>> }

\* Mutant of MaskedFlags: the flags are compared as they are.
MaskedFlags_Unmasked(flags) == flags

\* sec.flags() & (SHF_ALLOC | SHF_WRITE | SHF_EXECINSTR)
MaskedFlags(flags) == flags \cap {"ALLOC", "WRITE", "EXECINSTR"}

\* The flags each named section must have under the mask.
ExpectedFlags(name) ==
    CASE name = ".text"   -> {"ALLOC", "EXECINSTR"}
      [] name = ".data"   -> {"ALLOC", "WRITE"}
      [] name = ".rodata" -> {"ALLOC"}
      [] name = ".bss"    -> {"ALLOC", "WRITE"}

WrongFlagsMsg(name) ==
    CASE name = ".text"   -> ".text section had wrong flags!"
      [] name = ".data"   -> ".data section had wrong flags!"
      [] name = ".rodata" -> ".rodata section had wrong flags!"
      [] name = ".bss"    -> ".bss section had wrong flags!"

\* The loop over elf_file.section_iter().enumerate(), from section i on: the
\* indices recorded and the deferred error ("ok" when none).
RECURSIVE ElfSectionIndices(_, _, _)
ElfSectionIndices(table, i, ndx) ==
    IF i > Len(table) THEN [ndx |-> ndx, err |-> "ok"]
    ELSE LET sec == table[i]
             index == i - 1
             named == (sec.typ = "ProgBits" /\ sec.name \in {".text", ".data", ".rodata"})
                      \/ (sec.typ = "NoBits" /\ sec.name = ".bss")
         IN  IF sec.typ \notin {"ProgBits", "NoBits"} \/ sec.size = 0 \/ ~named
             THEN ElfSectionIndices(table, i + 1, ndx)
             ELSE IF MaskedFlags(sec.flags) # ExpectedFlags(sec.name)
             THEN [ndx |-> ndx, err |-> WrongFlagsMsg(sec.name)]
             ELSE ElfSectionIndices(table, i + 1,
                      CASE sec.name = ".text"   -> [ndx EXCEPT !.text = index]
                        [] sec.name = ".data"   -> [ndx EXCEPT !.data = index]
                        [] sec.name = ".rodata" -> [ndx EXCEPT !.rodata = index]
                        [] sec.name = ".bss"    -> [ndx EXCEPT !.bss = index])

\* One entry of the ELF symbol table; "Err" stands for a binding or type
\* that get_binding()/get_type() rejects, name_ok for get_name() succeeding,
\* no_hash and hash for what demangle_symbol makes of the name.
ElfSymbol(binding, typ, ndx, value, size, name_ok, no_hash, hash) ==
    [binding |-> binding, typ |-> typ, shndx |-> ndx, value |-> value, size |-> size,
     name_ok |-> name_ok, no_hash |-> no_hash, hash |-> hash]

\* The symbol-table entries an ELF file may hold.
ElfSymbols ==
    { ElfSymbol("Global", "Func", 1, 17, 8, TRUE, <<"f">>, <<>>),
      ElfSymbol("Global", "Object", 2, 33, 31, TRUE, <<"r">>, << <<"h">> >>),
      ElfSymbol("Global", "Object", 3, 49, 4, TRUE, <<"d">>, <<>>),
      ElfSymbol("Global", "Object", 4, 63, 1, TRUE, <<"b">>, <<>>),
      ElfSymbol("Global", "Func", 5, 18, 8, TRUE, <<"f">>, <<>>),
      ElfSymbol("Local", "Func", 1, 17, 8, TRUE, <<"l">>, <<>>),
      ElfSymbol("Weak", "Object", 3, 49, 4, TRUE, <<"w">>, <<>>),
      ElfSymbol("Global", "NoType", 1, 17, 0, TRUE, <<"n">>, <<>>),
      ElfSymbol("Global", "Section", 1, 16, 0, TRUE, <<"s">>, <<>>),
      ElfSymbol("Err", "Func", 1, 17, 8, TRUE, <<"e">>, <<>>),
      ElfSymbol("Global", "Err", 1, 17, 8, TRUE, <<"e">>, <<>>),
      ElfSymbol("Global", "Func", 7, 17, 8, TRUE, <<"i">>, <<>>),
      ElfSymbol("Global", "Func", 1, 255, 8, TRUE, <<"f">>, <<>>),
      ElfSymbol("Global", "Object", 4, 17, 8, TRUE, <<"b">>, <<>>),
      ElfSymbol("Global", "Func", 1, 17, 8, FALSE, <<>>, <<>>),
      ElfSymbol("Global", "Func", 7, 17, 8, FALSE, <<>>, <<>>),
      ElfSymbol("Local", "Func", 1, 255, 8, FALSE, <<>>, <<>>) }

\* Mutant of ElfSymbolStep: weak symbols pass the filter as global ones do.
ElfSymbolStep_WeakAdmitted(entry) ==
    LET skip == [act |-> "continue", err |-> "ok", sec |-> <<>>]
        fail(m) == [act |-> "break", err |-> m, sec |-> <<>>]
        kind == ClassifyShndx(entry.shndx)
    IN  IF entry.binding \notin {"Global", "Weak"} \/ entry.typ \notin {"Func", "Object"} THEN skip
        ELSE IF ~entry.name_ok THEN fail("entry.get_name failed")
        ELSE IF kind.typ = "none" THEN skip
        ELSE IF offset_of_address(kind.pages, entry.value) = None
        THEN fail(NotCoveredMsg(kind.typ))
        ELSE [act |-> "insert", err |-> "ok",
              sec |-> <<LoadedSection(kind.typ, entry.no_hash, entry.hash, kind.pages,
                                      offset_of_address(kind.pages, entry.value),
                                      entry.value, entry.size, TRUE)>>]

\* What one pass of `for entry in symtab.iter()` does with `entry`:
\*   "continue" (not a global function or object, or a section index that is
\*   none of the four), "break" (try_break!) or "insert".
ElfSymbolStep(entry) ==
    LET skip == [act |-> "continue", err |-> "ok", sec |-> <<>>]
        fail(m) == [act |-> "break", err |-> m, sec |-> <<>>]
        kind == ClassifyShndx(entry.shndx)
    IN  IF entry.binding # "Global" \/ entry.typ \notin {"Func", "Object"} THEN skip
        ELSE IF ~entry.name_ok THEN fail("entry.get_name failed")
        ELSE IF kind.typ = "none" THEN skip
        ELSE IF offset_of_address(kind.pages, entry.value) = None
        THEN fail(NotCoveredMsg(kind.typ))
        ELSE [act |-> "insert", err |-> "ok",
              sec |-> <<LoadedSection(kind.typ, entry.no_hash, entry.hash, kind.pages,
                                      offset_of_address(kind.pages, entry.value),
                                      entry.value, entry.size, TRUE)>>]

\* as_slice, ElfFile::new and the search for the SymTab section.
Bin_Open ==
    /\ pc = "bin_open"
    /\ \E sliced \in BOOLEAN, is_elf \in BOOLEAN, has_symtab \in BOOLEAN :
          IF ~sliced
          THEN ReturnErr(try_mp("as_slice failed",
                                "text_pages", "rodata_pages", "data_pages"))
          ELSE IF ~is_elf
          THEN ReturnErr(try_mp("ElfFile::new failed",
                                "text_pages", "rodata_pages", "data_pages"))
          ELSE IF ~has_symtab
          THEN ReturnErr(try_mp("cannot load nano_core: no symbol table found. Was file stripped?",
                                "text_pages", "rodata_pages", "data_pages"))
          ELSE Goto("bin_find_sections")

\* The loop over the section headers, try_mp!(loop_result, ...) and the four
\* try_mp!(..._shndx.ok_or(...)) after it.
Bin_FindSections ==
    /\ pc = "bin_find_sections"
    /\ \E table \in ElfSectionTables :
          LET found == ElfSectionIndices(table, 1, NoShndx)
              read  == [input EXCEPT !.headers = table]
          IN  IF found.err # "ok"
              THEN ReturnErrReading(try_mp(found.err,
                                           "text_pages", "rodata_pages", "data_pages"), read)
              ELSE IF found.ndx.text = None
              THEN ReturnErrReading(try_mp("couldn't find .text section in nano_core ELF",
                                           "text_pages", "rodata_pages", "data_pages"), read)
              ELSE IF found.ndx.rodata = None
              THEN ReturnErrReading(try_mp("couldn't find .rodata section in nano_core ELF",
                                           "text_pages", "rodata_pages", "data_pages"), read)
              ELSE IF found.ndx.data = None
              THEN ReturnErrReading(try_mp("couldn't find .data section in nano_core ELF",
                                           "text_pages", "rodata_pages", "data_pages"), read)
              ELSE IF found.ndx.bss = None
              THEN ReturnErrReading(try_mp("couldn't find .bss section in nano_core ELF",
                                           "text_pages", "rodata_pages", "data_pages"), read)
              ELSE /\ shndx' = found.ndx
                   /\ input' = read
                   /\ pc' = "bin_new_crate"
                   /\ UNCHANGED <<symbol_file, strong, page_mapped, page_locked, scratch,
                                  fa_locked, section_counter, sections, loop_result,
                                  new_crate, new_syms, symbol_map, crate_tree, result,
                                  events>>

Bin_NewCrate == pc = "bin_new_crate" /\ NewCrate("bin_lock_pages")

Bin_LockPages == pc = "bin_lock_pages" /\ LockPages("bin_loop")

\* One pass of `for entry in symtab.iter()`.
Bin_Symbol ==
    /\ pc = "bin_loop"
    /\ Len(input.entries) < MaxEntries
    /\ \E entry \in ElfSymbols :
          LET step == ElfSymbolStep(entry)
          IN  /\ input' = [input EXCEPT !.entries = Append(@, entry)]
              /\ loop_result' = IF step.act = "break" THEN step.err ELSE loop_result
              /\ pc' = IF step.act = "break" THEN "bin_unlock" ELSE "bin_loop"
              /\ sections' = IF step.act = "insert"
                             THEN (SectionKey(section_counter) :> step.sec[1]) @@ sections
                             ELSE sections
              /\ strong' = IF step.act = "insert"
                           THEN [strong EXCEPT ![step.sec[1].pages] = @ + 1]
                           ELSE strong
              /\ new_crate' = IF step.act = "insert" /\ BackReferenceIsStrong
                               THEN [new_crate EXCEPT !.strong = @ + 1]
                               ELSE new_crate
              /\ section_counter' = IF step.act = "insert" THEN section_counter + 1
                                    ELSE section_counter
              /\ UNCHANGED <<symbol_file, page_mapped, page_locked, scratch, fa_locked,
                             shndx, new_syms, symbol_map, crate_tree, result,
                             events>>

\* The symbol table is exhausted: the loop ends.
Bin_EndOfTable == pc = "bin_loop" /\ Goto("bin_unlock")

Bin_Unlock == pc = "bin_unlock" /\ UnlockPages("bin_check_loop")

Bin_CheckLoop == pc = "bin_check_loop" /\ CheckLoopResult("bin_set_sections")

Bin_SetSections == pc = "bin_set_sections" /\ SetSections

\* ---- parse_nano_core, after the parser has returned the crate

\* CrateNamespace::add_symbols(sections, verbose_log): registers the global
\* sections it is given and returns how many new symbols that made.
add_symbols(crate) ==
    LET new == {<<crate.name, id>> : id \in {i \in DOMAIN crate.sections :
                                               crate.sections[i].global}} \ symbol_map
    IN  [map |-> symbol_map \cup new, count |-> Cardinality(new)]

\* let new_syms = default_namespace.add_symbols(new_crate_ref...sections.values(), ..);
AddSymbols ==
    /\ pc = "add_symbols"
    /\ symbol_map' = add_symbols(new_crate).map
    /\ new_syms' = add_symbols(new_crate).count
    /\ Log(<<"symbols_added">>)
    /\ pc' = "insert_crate"
    /\ UNCHANGED <<symbol_file, strong, page_mapped, page_locked, scratch, fa_locked,
                   shndx, section_counter, sections, loop_result, new_crate, input,
                   crate_tree, result>>

\* default_namespace.crate_tree.lock().insert(crate_name, new_crate_ref);
InsertCrate ==
    /\ pc = "insert_crate"
    /\ crate_tree' = (CrateName :> [name |-> new_crate.name, sections |-> new_crate.sections])
                     @@ crate_tree
    /\ Log(<<"crate_inserted">>)
    /\ pc' = "return_ok"
    /\ UNCHANGED <<symbol_file, strong, page_mapped, page_locked, scratch, fa_locked,
                   shndx, section_counter, sections, loop_result, new_crate, input,
                   new_syms, symbol_map, result>>

\* Ok(new_syms)
ReturnOk ==
    /\ pc = "return_ok"
    /\ result' = [kind |-> "Ok", msg |-> "", pages |-> <<>>, count |-> new_syms]
    /\ Log(<<"return_ok">>)
    /\ pc' = "done"
    /\ UNCHANGED <<symbol_file, strong, page_mapped, page_locked, scratch, fa_locked,
                   shndx, section_counter, sections, loop_result, new_crate, input,
                   new_syms, symbol_map, crate_tree>>

\* parse_nano_core is entered with the three MappedPages, each wrapped in
\* Arc::new(Mutex::new(..)); the default namespace holds nothing yet.
ParseInit(mode) ==
    /\ pc = "get_module"
    /\ symbol_file = mode
    /\ strong = [p \in Pages |-> 1]
    /\ page_mapped = [p \in Pages |-> TRUE]
    /\ page_locked = [p \in Pages |-> FALSE]
    /\ scratch = "none"
    /\ fa_locked = FALSE
    /\ shndx = NoShndx
    /\ section_counter = 0
    /\ sections = <<>>
    /\ loop_result = "ok"
    /\ new_crate = [exists |-> FALSE, strong |-> 0, name |-> CrateName, sections |-> <<>>]
    /\ input = [headers |-> <<>>, entries |-> <<>>]
    /\ new_syms = 0
    /\ symbol_map = {}
    /\ crate_tree = <<>>
    /\ result = [kind |-> "none", msg |-> "", pages |-> <<>>, count |-> 0]
    /\ events = <<>>


Init == PreemptInit /\ ParseInit(TRUE) /\ TaskInit

Hold ==
    \E c \in CPUs :
        /\ nops < MaxOps
        /\ Len(guards) < MaxLive
        /\ \/ hold_preemption(c)
           \/ hold_preemption_no_timer_disable(c)

Release ==
    \E c \in CPUs, i \in 1..Len(guards) :
        /\ nops < MaxOps
        /\ PreemptionGuard_drop(c, i)

Next ==
    \/ Hold /\ UNCHANGED <<parseVars, taskVars>>
    \/ Release /\ UNCHANGED <<parseVars, taskVars>>

Spec == Init /\ [][Next]_vars

\* ---- deep nesting on one CPU, no release: up to u8::MAX + 1 acquisitions.
\* The variant is free for the first MaxLive acquisitions and then repeats.
HoldNested ==
    \E c \in CPUs, v \in BOOLEAN :
        /\ guards # <<>> => c = guards[1].cpu_id
        /\ Len(guards) >= MaxLive => v = guards[Len(guards)].disable_timer
        /\ hold_preemption_internal(c, v)

NextOverflow == HoldNested /\ UNCHANGED <<parseVars, taskVars>>

SpecOverflow == Init /\ [][NextOverflow]_vars

\* ---- parse_nano_core under either build: the textual parser (the build's
\* PARSE_NANO_CORE_SYMBOL_FILE = true) or the ELF parser.
InitParse == PreemptInit /\ TaskInit /\ \E mode \in BOOLEAN : ParseInit(mode)

NextParse ==
    \/ GetModule /\ UNCHANGED <<preemptVars, taskVars>>
    \/ CheckAligned /\ UNCHANGED <<preemptVars, taskVars>>
    \/ GetPageTable /\ UNCHANGED <<preemptVars, taskVars>>
    \/ AllocatePages /\ UNCHANGED <<preemptVars, taskVars>>
    \/ LockFrameAllocator /\ UNCHANGED <<preemptVars, taskVars>>
    \/ MapPages /\ UNCHANGED <<preemptVars, taskVars>>
    \/ Sym_NullByte /\ UNCHANGED <<preemptVars, taskVars>>
    \/ Sym_NewCrate /\ UNCHANGED <<preemptVars, taskVars>>
    \/ Sym_ReadString /\ UNCHANGED <<preemptVars, taskVars>>
    \/ Sym_FindSections /\ UNCHANGED <<preemptVars, taskVars>>
    \/ Sym_LockPages /\ UNCHANGED <<preemptVars, taskVars>>
    \/ Sym_Line /\ UNCHANGED <<preemptVars, taskVars>>
    \/ Sym_EndOfFile /\ UNCHANGED <<preemptVars, taskVars>>
    \/ Sym_Unlock /\ UNCHANGED <<preemptVars, taskVars>>
    \/ Sym_CheckLoop /\ UNCHANGED <<preemptVars, taskVars>>
    \/ Sym_SetSections /\ UNCHANGED <<preemptVars, taskVars>>
    \/ Bin_Open /\ UNCHANGED <<preemptVars, taskVars>>
    \/ Bin_FindSections /\ UNCHANGED <<preemptVars, taskVars>>
    \/ Bin_NewCrate /\ UNCHANGED <<preemptVars, taskVars>>
    \/ Bin_LockPages /\ UNCHANGED <<preemptVars, taskVars>>
    \/ Bin_Symbol /\ UNCHANGED <<preemptVars, taskVars>>
    \/ Bin_EndOfTable /\ UNCHANGED <<preemptVars, taskVars>>
    \/ Bin_Unlock /\ UNCHANGED <<preemptVars, taskVars>>
    \/ Bin_CheckLoop /\ UNCHANGED <<preemptVars, taskVars>>
    \/ Bin_SetSections /\ UNCHANGED <<preemptVars, taskVars>>
    \/ AddSymbols /\ UNCHANGED <<preemptVars, taskVars>>
    \/ InsertCrate /\ UNCHANGED <<preemptVars, taskVars>>
    \/ ReturnOk /\ UNCHANGED <<preemptVars, taskVars>>

SpecParse == InitParse /\ [][NextParse]_vars

\* ---- acquisitions and releases statement by statement, with migration
NextMigrate ==
    \/ \E t \in Tasks, c \in CPUs : Migrate(t, c) /\ UNCHANGED parseVars
    \/ \E t \in Tasks, v \in BOOLEAN : Acq_CurrentCpu(t, v) /\ UNCHANGED parseVars
    \/ \E t \in Tasks : Acq_WithPreempt(t) /\ UNCHANGED parseVars
    \/ \E t \in Tasks : Acq_Finish(t) /\ UNCHANGED parseVars
    \/ \E t \in Tasks : Drop_Assert(t) /\ UNCHANGED parseVars
    \/ \E t \in Tasks : Drop_WithPreempt(t) /\ UNCHANGED parseVars
    \/ \E t \in Tasks : Drop_Finish(t) /\ UNCHANGED parseVars

SpecMigrate == Init /\ [][NextMigrate]_vars

\* ---- the textual parser on a well-formed list of globals
NextRoundTrip ==
    \/ GetModule /\ UNCHANGED <<preemptVars, taskVars>>
    \/ CheckAligned /\ UNCHANGED <<preemptVars, taskVars>>
    \/ GetPageTable /\ UNCHANGED <<preemptVars, taskVars>>
    \/ AllocatePages /\ UNCHANGED <<preemptVars, taskVars>>
    \/ LockFrameAllocator /\ UNCHANGED <<preemptVars, taskVars>>
    \/ MapPages /\ UNCHANGED <<preemptVars, taskVars>>
    \/ Sym_NullByte /\ UNCHANGED <<preemptVars, taskVars>>
    \/ Sym_NewCrate /\ UNCHANGED <<preemptVars, taskVars>>
    \/ Sym_ReadString /\ UNCHANGED <<preemptVars, taskVars>>
    \/ Sym_FindSections /\ UNCHANGED <<preemptVars, taskVars>>
    \/ Sym_LockPages /\ UNCHANGED <<preemptVars, taskVars>>
    \/ Sym_GlobalLine /\ UNCHANGED <<preemptVars, taskVars>>
    \/ Sym_EndOfFile /\ UNCHANGED <<preemptVars, taskVars>>
    \/ Sym_Unlock /\ UNCHANGED <<preemptVars, taskVars>>
    \/ Sym_CheckLoop /\ UNCHANGED <<preemptVars, taskVars>>
    \/ Sym_SetSections /\ UNCHANGED <<preemptVars, taskVars>>
    \/ AddSymbols /\ UNCHANGED <<preemptVars, taskVars>>
    \/ InsertCrate /\ UNCHANGED <<preemptVars, taskVars>>
    \/ ReturnOk /\ UNCHANGED <<preemptVars, taskVars>>

SpecRoundTrip == Init /\ [][NextRoundTrip]_vars


\* ------------------------------------------------------------- properties

Other(c) == CHOOSE d \in CPUs : d # c

\* A step that executed an operation (not a stuttering step).
Stepped == nops' # nops

\* C2: on a CPU of a kernel that has not aborted, the preemption counter equals
\* the number of guards acquired on that CPU and not yet released; it is 0
\* exactly when every acquisition has been matched by a release.
C2_CounterCountsLiveGuards ==
    aborted = "none" =>
        \A c \in CPUs :
            /\ count[c] = Cardinality(GuardsOn(c))
            /\ (count[c] = 0 <=> GuardsOn(c) = {})

\* Two acquisitions and two releases on one CPU brought its counter back to 0.
C2_Witness ==
    \E c \in CPUs :
        /\ aborted = "none" /\ nops = 4 /\ last.op = "drop" /\ last.cpu = c
        /\ count[c] = 0 /\ GuardsOn(c) = {} /\ regions[Other(c)] = <<>>

\* The APIC calls the regions of a CPU account for: FALSE when a region was
\* opened by hold_preemption(), TRUE once it has closed.
RECURSIVE RegionCalls(_)
RegionCalls(rs) ==
    IF rs = <<>> THEN <<>>
    ELSE (IF Head(rs).disable_timer THEN <<FALSE>> ELSE <<>>)
         \o (IF Head(rs).closed THEN <<TRUE>> ELSE <<>>)
         \o RegionCalls(Tail(rs))

\* The enable_lvt_timer() calls the operation of this step is to make on CPU c.
ExpectedCalls(c) ==
    IF last'.cpu # c THEN <<>>
    ELSE IF last'.op = "hold" /\ last'.guard.disable_timer /\ count[c] = 0
         THEN <<FALSE>>
    ELSE IF last'.op = "drop" /\ last'.guard.cpu_id = c /\ count[c] = 1
         THEN <<TRUE>>
    ELSE <<>>

\* C3: the APIC LVT timer is reconfigured exactly on counter transitions: an
\* acquisition by hold_preemption() observing 0 makes one enable_lvt_timer(false)
\* call, a release observing 1 makes one enable_lvt_timer(true) call, and no
\* other operation makes an APIC call; so each outermost region opened by
\* hold_preemption() records false, then true, once each.
C3_TimerOnTransitions ==
    /\ [][Stepped => \A c \in CPUs : apic_calls'[c] = apic_calls[c] \o ExpectedCalls(c)]_vars
    /\ [](\A c \in CPUs : apic_calls[c] = RegionCalls(regions[c]))

\* The nested scenario: hold, hold, release, release on one CPU recorded
\* exactly false, true.
C3_Witness ==
    \E c \in CPUs :
        /\ nops = 4 /\ count[c] = 0 /\ regions[Other(c)] = <<>>
        /\ regions[c] = <<[disable_timer |-> TRUE, closed |-> TRUE]>>
        /\ apic_calls[c] = <<FALSE, TRUE>>

\* C4 as stated: whenever a guard returned by hold_preemption() is live on a
\* CPU, that CPU's timer is disabled, for any mix of the two variants.
C4_Original ==
    \A i \in 1..Len(guards) :
        guards[i].disable_timer => ~timer[guards[i].cpu_id]

\* C4 (amended): whenever a live guard returned by hold_preemption() has
\* preemption_was_enabled set (its acquisition moved the counter from 0 to 1),
\* that CPU's timer is disabled, for any mix of the two variants and releases.
C4_OutermostTimerGuardDisablesTimer ==
    \A i \in 1..Len(guards) :
        (guards[i].disable_timer /\ guards[i].preemption_was_enabled)
            => ~timer[guards[i].cpu_id]

\* An outermost hold_preemption() guard is live together with a lightweight
\* guard after a release on that CPU.
C4_Witness ==
    \E i, j \in 1..Len(guards) :
        /\ guards[i].disable_timer /\ guards[i].preemption_was_enabled
        /\ guards[j].cpu_id = guards[i].cpu_id /\ ~guards[j].disable_timer
        /\ last.op = "drop" /\ last.cpu = guards[i].cpu_id /\ aborted = "none"
        /\ ~timer[guards[i].cpu_id]

\* An acquisition returns preemption_was_enabled exactly when it moved the
\* counter of its CPU from 0 to 1.
OutermostFlagged ==
    (Stepped /\ last'.op = "hold" /\ aborted' = "none") =>
        (last'.guard.preemption_was_enabled
            <=> (count[last'.cpu] = 0 /\ count'[last'.cpu] = 1))

\* This step is a release that re-enabled the timer of its CPU.
ReleaseReenables ==
    /\ Stepped /\ last'.op = "drop"
    /\ apic_calls'[last'.cpu] = Append(apic_calls[last'.cpu], TRUE)

\* C5 as stated: only the outermost acquisition returns preemption_was_enabled,
\* and the release that re-enables the timer is the release of that guard,
\* whatever the order of the releases.
C5_Original ==
    [][/\ OutermostFlagged
       /\ ReleaseReenables => last'.guard.preemption_was_enabled]_vars

\* C5 (amended): only the acquisition that moved the counter from 0 to 1 returns
\* preemption_was_enabled (so at most one live guard per CPU carries it); the
\* release that re-enables the timer is the release of the last guard still
\* live on that CPU, and it is the outermost guard when the guards of the
\* region were released in reverse order of acquisition.
C5_OutermostReleasedLastWhenNested ==
    /\ [][/\ OutermostFlagged
          /\ ReleaseReenables =>
                /\ Cardinality(GuardsOn(last'.cpu)) = 1
                /\ lifo[last'.cpu] => last'.guard.preemption_was_enabled]_vars
    /\ [](\A c \in CPUs :
            Cardinality({i \in GuardsOn(c) : guards[i].preemption_was_enabled}) <= 1)

\* Two guards were live at once on a CPU and were released newest first; the
\* last release, of the outermost guard, re-enabled the timer.
C5_Witness ==
    \E c \in CPUs :
        /\ nops = 4 /\ regions[Other(c)] = <<>> /\ Len(regions[c]) = 1
        /\ last.op = "drop" /\ last.guard.preemption_was_enabled
        /\ lifo[c] /\ count[c] = 0 /\ timer[c]

\* C6: releasing a guard on a CPU other than the one recorded in it aborts
\* before any counter is decremented and before any APIC call: no counter and
\* no timer changes.
C6_MismatchAbortsFirst ==
    [][(Stepped /\ last'.op = "drop" /\ last'.guard.cpu_id # last'.cpu) =>
          /\ aborted' = "cpu_mismatch"
          /\ count' = count /\ timer' = timer /\ apic_calls' = apic_calls]_vars

\* A guard of one CPU was released on the other while both held guards.
C6_Witness ==
    /\ aborted = "cpu_mismatch" /\ last.op = "drop"
    /\ last.guard.cpu_id # last.cpu
    /\ count[last.guard.cpu_id] >= 1 /\ count[last.cpu] >= 1

\* C7: from counter 0, 255 consecutive acquisitions of either variant succeed
\* and leave the counter at 255, the 256th aborts for overflow; an acquisition
\* aborts for overflow exactly when the previous value it observes is 255.
C7_OverflowOn256th ==
    /\ [](/\ aborted \in {"none", "overflow"}
          /\ aborted = "none" =>
                /\ nops <= U8_MAX
                /\ Len(guards) = nops
                /\ nops > 0 => count[last.cpu] = nops
          /\ aborted = "overflow" <=> nops = U8_MAX + 1)
    /\ [][Stepped => (aborted' = "overflow" <=> count[last'.cpu] = U8_MAX)]_vars

\* The 256th acquisition has aborted.
C7_Witness ==
    /\ aborted = "overflow" /\ nops = U8_MAX + 1 /\ Len(guards) = U8_MAX


\* ---- parse_nano_core: properties

ThreeHandles == <<"text_pages", "rodata_pages", "data_pages">>

\* C1: every Err that parse_nano_core returns holds the handles of
\* text_pages, rodata_pages and data_pages, in that order, and at that moment
\* each of the three is still referenced and its pages are still mapped.
C1_ErrReturnsThreeHandles ==
    result.kind = "Err" =>
        /\ result.pages = ThreeHandles
        /\ \A p \in Pages : strong[p] >= 1 /\ page_mapped[p]

\* An Err returned by the parser loop after it had already built a section
\* that held a clone of a handle.
C1_Witness ==
    /\ result.kind = "Err"
    /\ section_counter > 0
    /\ loop_result # "ok"
    /\ \A p \in Pages : strong[p] = 1

\* Whether the parser admitted entry e of the file as a section: its section
\* index is one of the four the header pass recorded (and, in an ELF file, it
\* is a global function or object).
Admitted(e) ==
    LET four == {shndx.text, shndx.rodata, shndx.data, shndx.bss}
    IN  IF symbol_file
        THEN Len(e) = 8 /\ from_str_radix(e[7], 10) # None
                        /\ from_str_radix(e[7], 10) \in four
        ELSE e.binding = "Global" /\ e.typ \in {"Func", "Object"} /\ e.shndx \in four

AdmittedCount ==
    Cardinality({i \in 1..Len(input.entries) : Admitted(input.entries[i])})

\* C8: when parse_nano_core returns Ok, the crate tree holds under the key
\* "nano_core" the crate the parser built, and the count returned is the number
\* of entries the parser admitted as sections, each of them a section of that
\* crate.
C8_CrateInsertedAndCounted ==
    result.kind = "Ok" =>
        /\ "nano_core" \in DOMAIN crate_tree
        /\ crate_tree["nano_core"] =
               [name |-> new_crate.name, sections |-> new_crate.sections]
        /\ Cardinality(DOMAIN crate_tree["nano_core"].sections) = AdmittedCount
        /\ result.count = AdmittedCount

\* A successful parse of a symbol file in which one entry was admitted and
\* another was not.
C8_Witness ==
    /\ result.kind = "Ok"
    /\ symbol_file
    /\ Len(input.entries) = 2
    /\ result.count = 1

\* Place of the first event e in the log, 0 if it is not there.
Pos(e) ==
    IF \E i \in 1..Len(events) : events[i] = e
    THEN CHOOSE i \in 1..Len(events) :
             events[i] = e /\ \A j \in 1..(i - 1) : events[j] # e
    ELSE 0

\* C9: on the success path the parser returns, then the sections are
\* registered with the namespace, then the crate is inserted into the crate
\* tree, only then is the scratch mapping unmapped, and then the count is
\* returned.
C9_Original ==
    result.kind = "Ok" =>
        /\ Pos("parser_returned") < Pos("symbols_added")
        /\ Pos("symbols_added") < Pos("crate_inserted")
        /\ Pos("crate_inserted") < Pos("scratch_unmapped")
        /\ Pos("scratch_unmapped") < Pos("return_ok")

\* A successful parse: the scratch mapping was unmapped while the namespace
\* and the crate tree were still untouched.
C9_Witness ==
    /\ pc = "add_symbols"
    /\ scratch = "unmapped"
    /\ crate_tree = <<>>
    /\ symbol_map = {}

\* C10: the frame allocator lock is taken only by the scratch-mapping step
\* and held only within it; it is not held when the scratch mapping is
\* unmapped; and once parse_nano_core has returned no scratch mapping is
\* left mapped.
C10_LockOnlyWhileMapping ==
    /\ [](fa_locked => pc = "map_pages")
    /\ [](pc = "done" => scratch # "mapped")
    /\ [][/\ (~fa_locked /\ fa_locked') => pc = "lock_frame_allocator"
          /\ (scratch = "mapped" /\ scratch' = "unmapped") => (~fa_locked /\ ~fa_locked')]_vars

\* A failure after the scratch mapping had been made: parse_nano_core has
\* returned, the mapping is gone and the lock is free.
C10_Witness ==
    /\ pc = "done"
    /\ result.kind = "Err"
    /\ scratch = "unmapped"
    /\ ~fa_locked


\* The pages that own a section of each kind.
KindPages(typ) ==
    CASE typ = "Text" -> "text_pages" [] typ = "Rodata" -> "rodata_pages"
      [] typ \in {"Data", "Bss"} -> "data_pages"

\* The kind whose recorded index is n ("none" if n is none of the four).
KindOfIndex(n) ==
    CASE n = shndx.text -> "Text" [] n = shndx.rodata -> "Rodata"
      [] n = shndx.data -> "Data" [] n = shndx.bss -> "Bss" [] OTHER -> "none"

InRange(p, vaddr) ==
    PageRange[p].start <= vaddr /\ vaddr < PageRange[p].start + PageRange[p].size

\* A section lies in the pages of its kind, at the offset of its address.
WellPlaced(sec) ==
    /\ sec.pages = KindPages(sec.typ)
    /\ InRange(sec.pages, sec.virtual_address)
    /\ sec.offset = sec.virtual_address - PageRange[sec.pages].start

\* The kind of entry e when e is otherwise well formed and names one of the
\* four sections but its address lies outside the pages of that kind; "none"
\* for every other entry.
UncoveredKind(e) ==
    IF symbol_file
    THEN IF Len(e) = 8 /\ ~SplitNameHash(e[8]).multiple
            /\ from_str_radix(e[2], 16) # None /\ ParseSecSize(e[3]) # None
            /\ from_str_radix(e[7], 10) # None
            /\ KindOfIndex(from_str_radix(e[7], 10)) # "none"
            /\ ~InRange(KindPages(KindOfIndex(from_str_radix(e[7], 10))),
                        from_str_radix(e[2], 16))
         THEN KindOfIndex(from_str_radix(e[7], 10)) ELSE "none"
    ELSE IF e.binding = "Global" /\ e.typ \in {"Func", "Object"} /\ e.name_ok
            /\ KindOfIndex(e.shndx) # "none"
            /\ ~InRange(KindPages(KindOfIndex(e.shndx)), e.value)
         THEN KindOfIndex(e.shndx) ELSE "none"

NotCoveredMsgs ==
    [Text   |-> "nano_core text section wasn't covered by its mapped pages!",
     Rodata |-> "nano_core rodata section wasn't covered by its mapped pages!",
     Data   |-> "nano_core data section wasn't covered by its mapped pages!",
     Bss    |-> "nano_core bss section wasn't covered by its mapped pages!"]

\* C11: every section either parser builds, and every section of the crate it
\* returns, lies in the pages of its kind (Text in text_pages, Rodata in
\* rodata_pages, Data and Bss in data_pages) with its address inside them and
\* its offset the address minus their base; and the parse ends with the
\* "wasn't covered by its mapped pages" error of a kind, the three handles
\* returned, exactly when the last entry read is an entry of that kind whose
\* address lies outside those pages.
C11_SectionsInPagesOfTheirKind ==
    /\ \A id \in DOMAIN sections : WellPlaced(sections[id])
    /\ \A id \in DOMAIN new_crate.sections : WellPlaced(new_crate.sections[id])
    /\ \A i \in 1..Len(input.entries) :
          UncoveredKind(input.entries[i]) # "none" =>
              /\ i = Len(input.entries)
              /\ loop_result = NotCoveredMsgs[UncoveredKind(input.entries[i])]
              /\ pc = "done" =>
                    /\ result.kind = "Err"
                    /\ result.msg = NotCoveredMsgs[UncoveredKind(input.entries[i])]
                    /\ result.pages = ThreeHandles
    /\ \A k \in DOMAIN NotCoveredMsgs :
          (loop_result = NotCoveredMsgs[k] \/ result.msg = NotCoveredMsgs[k]) =>
              /\ input.entries # <<>>
              /\ UncoveredKind(input.entries[Len(input.entries)]) = k

\* A parse that built one section and then failed on a .data entry whose
\* address no page of data_pages covers.
C11_Witness ==
    /\ pc = "done"
    /\ result.msg = NotCoveredMsgs.Data
    /\ Len(input.entries) = 2
    /\ section_counter = 1


\* Entry e of a symbol file is well formed and its index is the one recorded
\* for `kind`.
GlobalOfKind(e, kind) ==
    /\ Len(e) = 8
    /\ ~SplitNameHash(e[8]).multiple
    /\ from_str_radix(e[2], 16) # None
    /\ ParseSecSize(e[3]) # None
    /\ from_str_radix(e[7], 10) # None
    /\ KindOfIndex(from_str_radix(e[7], 10)) = kind
    /\ InRange(KindPages(kind), from_str_radix(e[2], 16))

Kinds == {"Text", "Rodata", "Data", "Bss"}

\* The list read is one of N well-formed entries over the four indices.
AllGlobals ==
    \A i \in 1..Len(input.entries) : \E k \in Kinds : GlobalOfKind(input.entries[i], k)

\* The parser has installed the section map into the crate.
Installed == pc \in {"add_symbols", "insert_crate", "return_ok"} \/ result.kind = "Ok"

\* C12: in textual mode, once the parser has read a well-formed list of N
\* entries whose indices are among the four recorded ones, the crate has
\* exactly N sections, as many of each kind as there are entries with that
\* kind's index, and every section is flagged global.
C12_RoundTripCounts ==
    (symbol_file /\ Installed /\ AllGlobals) =>
        /\ Cardinality(DOMAIN new_crate.sections) = Len(input.entries)
        /\ \A k \in Kinds :
              Cardinality({id \in DOMAIN new_crate.sections :
                              new_crate.sections[id].typ = k})
                = Cardinality({i \in 1..Len(input.entries) :
                                  GlobalOfKind(input.entries[i], k)})
        /\ \A id \in DOMAIN new_crate.sections : new_crate.sections[id].global

\* A list of four entries, one of each kind, parsed into a crate.
C12_Witness ==
    /\ symbol_file /\ result.kind = "Ok" /\ AllGlobals
    /\ Len(input.entries) = 4
    /\ \A k \in Kinds : \E id \in DOMAIN new_crate.sections : new_crate.sections[id].typ = k


\* The line a step of the textual loop has just read, <<>> if it read none.
LineRead ==
    IF symbol_file /\ pc = "sf_loop" /\ Len(input'.entries) = Len(input.entries) + 1
    THEN <<input'.entries[Len(input'.entries)]>> ELSE <<>>

\* The section-index column of `line` is present and is no decimal number.
NdxNotDecimal(line) == Len(line) >= 7 /\ from_str_radix(line[7], 10) = None

\* The step skips the line it read: no section, no error, no id consumed, and
\* the loop goes on.
LineSkipped ==
    /\ sections' = sections
    /\ section_counter' = section_counter
    /\ loop_result' = "ok"
    /\ pc' = "sf_loop"

\* The other columns the loop body needs are there and parse.
OtherFieldsParse(line) ==
    /\ Len(line) = 8
    /\ ~SplitNameHash(line[8]).multiple
    /\ from_str_radix(line[2], 16) # None
    /\ ParseSecSize(line[3]) # None

\* C13 as claimed: a line whose section-index column is no decimal number is
\* skipped without a section and without an error, whatever its other
\* columns hold.
C13_Original ==
    [][(LineRead # <<>> /\ NdxNotDecimal(LineRead[1])) => LineSkipped]_vars

\* C13 amended: a line whose section-index column is no decimal number is
\* skipped without a section and without an error when its name holds at most
\* one '#' and its value and size columns parse; when one of those fails the
\* loop ends with that column's error and still no section.
C13_NonDecimalIndexSkippedWhenRestParses ==
    [][(LineRead # <<>> /\ NdxNotDecimal(LineRead[1])) =>
          IF OtherFieldsParse(LineRead[1]) THEN LineSkipped
          ELSE sections' = sections /\ loop_result' # "ok" /\ pc' = "sf_unlock"]_vars

\* An ABS line came first and was skipped; the parser went on to read the
\* next line and made a section of it under id 0.
C13_Witness ==
    /\ symbol_file
    /\ Len(input.entries) = 2
    /\ input.entries[1] # <<>>
    /\ input.entries[1][7] = <<"A", "B", "S">>
    /\ DOMAIN sections = {0}
    /\ loop_result = "ok"


\* The places of '#' in a name field.
HashPlaces(name) == {i \in 1..Len(name) : name[i] = "#"}

FirstHash(name) == CHOOSE i \in HashPlaces(name) : \A j \in HashPlaces(name) : i <= j

MultipleHashMsg ==
    "'Name' column had multiple '#' characters, expected only one '#' as the hash separator!"

\* The section a step has just added to the local map, <<>> if it added none.
SectionAdded ==
    IF \E k \in DOMAIN sections' : k \notin DOMAIN sections
    THEN <<sections'[CHOOSE k \in DOMAIN sections' : k \notin DOMAIN sections]>>
    ELSE <<>>

\* C14: in textual mode a name field without '#' gives a section whose name is
\* the whole field and whose hash is absent; a field with one '#' gives the
\* part before it as the name and the part after it as the hash; a field with
\* more than one '#' ends the loop with the multiple-'#' error and no section,
\* and the parse then returns that error with the three page handles.
C14_NameSplitAtHash ==
    /\ [][(LineRead # <<>> /\ Len(LineRead[1]) = 8) =>
            LET name == LineRead[1][8]
                n    == Cardinality(HashPlaces(name))
            IN  /\ n >= 2 => /\ loop_result' = MultipleHashMsg
                             /\ pc' = "sf_unlock"
                             /\ SectionAdded = <<>>
                /\ (n = 0 /\ SectionAdded # <<>>) =>
                       /\ SectionAdded[1].name = name
                       /\ SectionAdded[1].hash = <<>>
                /\ (n = 1 /\ SectionAdded # <<>>) =>
                       /\ SectionAdded[1].name = SubSeq(name, 1, FirstHash(name) - 1)
                       /\ SectionAdded[1].hash =
                              <<SubSeq(name, FirstHash(name) + 1, Len(name))>>]_vars
    /\ []((symbol_file /\ pc = "done" /\ loop_result = MultipleHashMsg) =>
             /\ result.kind = "Err"
             /\ result.msg = MultipleHashMsg
             /\ result.pages = ThreeHandles)

\* The parse of a file whose second line is named r#h and became a section
\* with name r and hash h, after a first line without '#'.
C14_Witness ==
    /\ symbol_file
    /\ DOMAIN sections = {0, 1}
    /\ sections[0].hash = <<>>
    /\ sections[1].name = <<"r">>
    /\ sections[1].hash = << <<"h">> >>


\* The section table of the ELF file has been scanned.
Scanned == ~symbol_file /\ input.headers # <<>>

\* Section i of the scanned table is not empty and has one of the four names
\* with the type that goes with it.
NamedSection(i) ==
    LET sec == input.headers[i]
    IN  /\ sec.size # 0
        /\ \/ sec.typ = "ProgBits" /\ sec.name \in {".text", ".data", ".rodata"}
           \/ sec.typ = "NoBits" /\ sec.name = ".bss"

\* The flags the four names go with.
FlagsFor(name) ==
    CASE name = ".text" -> {"ALLOC", "EXECINSTR"} [] name = ".data" -> {"ALLOC", "WRITE"}
      [] name = ".rodata" -> {"ALLOC"} [] name = ".bss" -> {"ALLOC", "WRITE"}

WrongFlagsMsgs ==
    [text |-> ".text section had wrong flags!", data |-> ".data section had wrong flags!",
     rodata |-> ".rodata section had wrong flags!", bss |-> ".bss section had wrong flags!"]

WrongFlagsFor(name) ==
    CASE name = ".text" -> WrongFlagsMsgs.text [] name = ".data" -> WrongFlagsMsgs.data
      [] name = ".rodata" -> WrongFlagsMsgs.rodata [] name = ".bss" -> WrongFlagsMsgs.bss

IsWrongFlagsMsg(m) == \E k \in DOMAIN WrongFlagsMsgs : m = WrongFlagsMsgs[k]

\* Index (from 0) of the last named section of the table with that name,
\* None if there is none.
LastNamed(name) ==
    LET is == {i \in 1..Len(input.headers) : NamedSection(i) /\ input.headers[i].name = name}
    IN  IF is = {} THEN None ELSE (CHOOSE i \in is : \A j \in is : j <= i) - 1

WrongSections ==
    {i \in 1..Len(input.headers) :
        NamedSection(i) /\ input.headers[i].flags \cap {"ALLOC", "WRITE", "EXECINSTR"}
                             # FlagsFor(input.headers[i].name)}

EntryRead ==
    IF ~symbol_file /\ pc = "bin_loop" /\ Len(input'.entries) = Len(input.entries) + 1
    THEN <<input'.entries[Len(input'.entries)]>> ELSE <<>>

\* Entry e passes the filter on binding and type.
PassesFilter(e) == e.binding = "Global" /\ e.typ \in {"Func", "Object"}

\* The section index of e is one of the four recorded.
KnownShndx(e) == e.shndx \in {shndx.text, shndx.rodata, shndx.data, shndx.bss}

\* The step raised no error and consumed no section id.
NoErrorNoId ==
    /\ loop_result' = "ok"
    /\ pc' = "bin_loop"
    /\ section_counter' = section_counter

\* C16 as claimed: an entry becomes a section if and only if its binding is
\* GLOBAL, its type Func or Object and its shndx one of the four recorded;
\* entries of another binding or type are ignored without error; entries that
\* pass the filter with an unrecognized shndx are skipped without error and
\* without consuming a section id.
C16_Original ==
    [][EntryRead # <<>> =>
         LET e == EntryRead[1]
         IN  /\ (SectionAdded # <<>>) <=> (PassesFilter(e) /\ KnownShndx(e))
             /\ ~PassesFilter(e) => (SectionAdded = <<>> /\ NoErrorNoId)
             /\ (PassesFilter(e) /\ ~KnownShndx(e)) => (SectionAdded = <<>> /\ NoErrorNoId)]_vars

\* C16 amended: an entry becomes a section (under the next id) if and only
\* if its binding is GLOBAL, its type Func or Object, its name can be read,
\* its shndx is one of the four recorded and its address lies in the pages
\* of that section's kind; entries of another binding or type are ignored
\* without error; an entry that passes the filter and whose name cannot be
\* read, or whose known section's pages do not cover it, ends the loop with
\* an error; an entry that passes the filter with a readable name and an
\* unrecognized shndx is skipped without error and without consuming an id.
C16_GlobalFuncOrObjectBecomesSection ==
    [][EntryRead # <<>> =>
         LET e == EntryRead[1]
             covered == InRange(KindPages(KindOfIndex(e.shndx)), e.value)
         IN  /\ (SectionAdded # <<>>) <=>
                    (PassesFilter(e) /\ e.name_ok /\ KnownShndx(e) /\ covered)
             /\ SectionAdded # <<>> =>
                    /\ DOMAIN sections' = DOMAIN sections \cup {section_counter}
                    /\ section_counter' = section_counter + 1
                    /\ loop_result' = "ok"
             /\ ~PassesFilter(e) => (SectionAdded = <<>> /\ NoErrorNoId)
             /\ (PassesFilter(e) /\ e.name_ok /\ ~KnownShndx(e)) =>
                    (SectionAdded = <<>> /\ NoErrorNoId)
             /\ (PassesFilter(e) /\ (~e.name_ok \/ (KnownShndx(e) /\ ~covered))) =>
                    (loop_result' # "ok" /\ pc' = "bin_unlock")]_vars

\* A global function with an unrecognized shndx came first and was skipped;
\* the next entry became the section with id 0.
C16_Witness ==
    /\ ~symbol_file
    /\ Len(input.entries) = 2
    /\ PassesFilter(input.entries[1])
    /\ input.entries[1].shndx = 7
    /\ DOMAIN sections = {0}
    /\ section_counter = 1
    /\ loop_result = "ok"


\* The parser is inside the block that holds the three lock guards.
InLockedBlock == pc \in {"sf_loop", "sf_unlock", "bin_loop", "bin_unlock"}

\* C17: in either parser an error raised for an entry ends the loop at that
\* entry, with the three page locks still held: no later entry is read and
\* the error kept is the first one; the locks are released before that error
\* is returned, and whenever a parser returns, Ok or Err, none of the three
\* page locks is held.
C17_ErrorSurfacesAfterUnlock ==
    /\ []((\E p \in Pages : page_locked[p]) => InLockedBlock)
    /\ []((pc = "done" /\ loop_result # "ok") =>
             result.kind = "Err" /\ result.msg = loop_result)
    /\ [][/\ (loop_result = "ok" /\ loop_result' # "ok") =>
                /\ Len(input'.entries) = Len(input.entries) + 1
                /\ pc' \in {"sf_unlock", "bin_unlock"}
                /\ \A p \in Pages : page_locked'[p]
          /\ (InLockedBlock /\ loop_result # "ok") =>
                /\ input' = input
                /\ loop_result' = loop_result
                /\ sections' = sections
          /\ (result.kind = "none" /\ result'.kind # "none") =>
                \A p \in Pages : ~page_locked[p] /\ ~page_locked'[p]
          /\ (pc # "add_symbols" /\ pc' = "add_symbols") =>
                \A p \in Pages : ~page_locked[p] /\ ~page_locked'[p]]_vars

\* The first entry of a file raised an error; the parse returned it with no
\* lock held, and no second entry was read.
C17_Witness ==
    /\ pc = "done"
    /\ result.kind = "Err"
    /\ loop_result # "ok"
    /\ result.msg = loop_result
    /\ Len(input.entries) = 1
    /\ \A p \in Pages : ~page_locked[p]


ExclusiveAccessMsg == "BUG: couldn't get exclusive mutable access to new_crate"

\* C18: while a parser builds the sections, and when it installs them, the
\* crate has a single strong reference (the builder's), so the exclusive
\* access is obtained and the parse never returns the 'couldn't get exclusive
\* mutable access' error; once installed, every section names as its parent an
\* existing crate, the one the parser returns.
C18_BuilderHoldsOnlyStrongReference ==
    /\ new_crate.exists => new_crate.strong = 1
    /\ pc \in {"sf_set_sections", "bin_set_sections"} =>
           new_crate.exists /\ lock_as_mut(new_crate)
    /\ result.msg # ExclusiveAccessMsg
    /\ Installed =>
           /\ new_crate.exists
           /\ \A id \in DOMAIN new_crate.sections :
                 new_crate.sections[id].parent_crate = new_crate.name

\* Two sections built, exclusive access about to be asked for.
C18_Witness ==
    /\ pc \in {"sf_set_sections", "bin_set_sections"}
    /\ Cardinality(DOMAIN sections) = 2
    /\ new_crate.strong = 1


\* The ids 0, 1, ..., n-1.
FirstIds(n) == 0..(n - 1)

\* C19 as claimed: in both modes the sections of the local map, and of the
\* crate once installed, carry the ids 0, 1, ..., N-1.
C19_Original ==
    /\ DOMAIN sections = FirstIds(Cardinality(DOMAIN sections))
    /\ Installed =>
          DOMAIN new_crate.sections = FirstIds(Cardinality(DOMAIN new_crate.sections))

\* The textual line just read has a decimal index that is none of the four,
\* and its other columns parse.
OtherSectionLine(line) ==
    /\ OtherFieldsParse(line)
    /\ from_str_radix(line[7], 10) # None
    /\ KindOfIndex(from_str_radix(line[7], 10)) = "none"

\* C19 amended: in both modes the counter starts at 0 and a section is
\* appended under the counter's current value, which is greater than every id
\* already given, after which the counter advances by one.  In ELF mode the
\* counter advances only then, so N sections carry the ids 0, 1, ..., N-1 in
\* the order their entries were admitted.  In textual mode the counter also
\* advances for a line whose decimal index is none of the four, so the ids
\* rise in the order of admission but may leave gaps.
C19_IdsRiseFromZero ==
    /\ [](pc \in {"sf_lock_pages", "bin_lock_pages"} =>
             section_counter = 0 /\ sections = <<>>)
    /\ [](DOMAIN sections \subseteq FirstIds(section_counter))
    /\ [](pc \in {"bin_loop", "bin_unlock", "bin_check_loop", "bin_set_sections"} =>
             DOMAIN sections = FirstIds(section_counter))
    /\ []((Installed /\ ~symbol_file) =>
             DOMAIN new_crate.sections = FirstIds(Cardinality(DOMAIN new_crate.sections)))
    /\ [][/\ SectionAdded # <<>> =>
                /\ section_counter \notin DOMAIN sections
                /\ DOMAIN sections' = DOMAIN sections \cup {section_counter}
                /\ \A id \in DOMAIN sections : sections'[id] = sections[id]
                /\ section_counter' = section_counter + 1
          /\ (LineRead # <<>> /\ OtherSectionLine(LineRead[1])) =>
                /\ SectionAdded = <<>>
                /\ section_counter' = section_counter + 1
          /\ (EntryRead # <<>> /\ SectionAdded = <<>>) =>
                section_counter' = section_counter]_vars

\* A symbol file whose first line belongs to a section that is none of the
\* four: the one section of the returned crate has id 1.
C19_Witness ==
    /\ symbol_file
    /\ result.kind = "Ok"
    /\ DOMAIN new_crate.sections = {1}

\* ---- C20

\* Task t holds a guard that hold_preemption_internal has returned.
HoldsGuard(t) == tasks[t].guard # <<>>

\* Every returned guard names the CPU whose counter its acquisition incremented.
GuardNamesCountedCpu ==
    \A t \in Tasks : HoldsGuard(t) => tasks[t].guard[1].cpu_id = tasks[t].counted

\* A step leaves the counter and the timer of every CPU other than the one
\* the stepping task runs on as they were.
OtherCpusUntouched ==
    \A d \in CPUs :
        (count'[d] # count[d] \/ timer'[d] # timer[d] \/ apic_calls'[d] # apic_calls[d])
            => \E t \in Tasks : tasks'[t] # tasks[t] /\ tasks[t].cpu = d

ReleaseDecrements ==
    /\ last'.op = "drop"
    /\ nops' = nops + 1
    /\ CpuIdsMatch(last'.guard.cpu_id, last'.cpu)

\* The release of this step read the previous counter value 0.
ReleaseObservesZero == ReleaseDecrements /\ DropUnderflows(count[last'.cpu])

\* C21: every guard being released at most once, on the CPU that created it,
\* and no acquisition having overflowed, no release reads the previous counter
\* value 0, and the underflow abort of release is never taken.
C21_UnderflowUnreachable ==
    /\ [](aborted # "overflow" => aborted # "underflow")
    /\ [][aborted # "overflow" => ~ReleaseObservesZero]_vars

\* Three nested guards of one CPU have all been released there, the last
\* release reading 1 and leaving the counter at 0, with nothing aborted.
C21_Witness ==
    /\ nops = 6
    /\ guards = <<>>
    /\ last.op = "drop"
    /\ last.guard.cpu_id = last.cpu
    /\ count[last.cpu] = 0
    /\ Len(apic_calls[last.cpu]) = 2
    /\ \A c \in CPUs : c # last.cpu => apic_calls[c] = <<>>
    /\ aborted = "none"
\* ---- C22

\* The default namespace holds no symbol and no crate of the nano_core.
NamespaceUntouched == symbol_map = {} /\ CrateName \notin DOMAIN crate_tree

\* The step changes the default namespace.
NamespaceChanges == symbol_map' # symbol_map \/ crate_tree' # crate_tree

\* The selected parser has returned Ok with a crate whose sections are set:
\* its loop ended without an error and parse_nano_core has not returned.
ParserReturnedCrate ==
    /\ pc \in {"add_symbols", "insert_crate"}
    /\ \E i \in 1..Len(events) : events[i] = "parser_returned"
    /\ new_crate.exists
    /\ loop_result = "ok"
    /\ result.kind = "none"

\* C22: when parse_nano_core returns Err the default namespace is as it was,
\* with no symbol of the nano_core added and no crate under "nano_core"; the
\* namespace changes only after the selected parser has returned its crate.
C22_ErrLeavesNamespaceUnchanged ==
    /\ [](result.kind = "Err" => NamespaceUntouched)
    /\ [][NamespaceChanges => ParserReturnedCrate]_vars

\* The ELF parser had put a section into its map when a later entry failed,
\* and parse_nano_core returned that error with the namespace still empty.
C22_Witness ==
    /\ ~symbol_file
    /\ section_counter >= 1
    /\ loop_result # "ok"
    /\ result.kind = "Err"
    /\ NamespaceUntouched
====
